---- MODULE Spec2Model ----
(***************************************************************************)
(* Daily-Finance-News: a model of the report pipeline.                     *)
(*   - markdown_to_html      (src/generate_report.py)                      *)
(*   - fetch_rss_feed / aggregate_all_news (src/fetch_news.py)             *)
(*   - generate_report.main  (src/generate_report.py)                      *)
(*   - send_report __main__  (src/send_report.py)                          *)
(* Text is modelled as a sequence of one-character strings.                *)
(***************************************************************************)
EXTENDS Integers, Sequences, FiniteSets, TLC

VARIABLES
    \* ---- markdown_to_html ----
    md_text,        \* the input text, a sequence of characters
    lines,          \* md_text.split('\n')
    md_i,           \* number of lines already consumed by the for loop
    html_lines,     \* the output list, one record per appended line
    in_bullet,      \* the renderer's only persistent state
    md_pc,          \* "idle" | "loop" | "done"
    \* ---- aggregate_all_news ----
    max_items_per_source,  \* the per-feed item cap
    fetched,        \* per source already visited: what the feed served, what fetch_rss_feed returned
    all_news,       \* the bucket: category -> list of items
    agg_pc,         \* "idle" | "loop" | "done"
    \* ---- send_report.py ----
    SENDGRID_API_KEY,     \* "" when unset
    GMAIL_APP_PASSWORD,   \* "" when unset
    WECHAT_WEBHOOK_URL,   \* "" when unset
    WECHAT_WEBHOOK_URL2,  \* "" when unset
    GITHUB_REPOSITORY,    \* characters, <<>> when unset
    GITHUB_PAGES_DOMAIN,  \* characters, <<>> when unset
    files,          \* which of the report files on disk can be read
    html_public_url,\* characters, <<>> when there is no public URL
    calls,          \* the mail transports called so far and what each returned
    email_result,   \* what send_email returned: "none" | "True" | "False" | "raised"
    composed,       \* full_message before the length check, as segments
    payload,        \* payload["markdown"]["content"], as segments
    market,         \* indices and commodities loaded from market_data.json
    urls_to_send,   \* the configured webhook URLs
    post_i,         \* number of URLs the for loop is done with
    posts,          \* the webhook requests made so far, in order
    success,        \* send_wechat_work's local flag
    wechat_result,  \* what send_wechat_work returned: "none" | "True" | "False"
    send_pc,        \* position in the __main__ block
    \* ---- generate_report.main ----
    generated_content,  \* the report draft, characters
    gen_failure,    \* what failed inside generate_report_content: "none" | "client" | "call"
    stages,         \* the stages of main completed so far, in order
    pdf_raised,     \* whether the PDF renderer raised
    gen_pc,         \* position in main
    \* ---- fetch_market_data ----
    mk_hist,        \* per ticker already visited: what its history call did
    data,           \* the result: category -> dict of ticker records
    mk_pc,          \* "idle" | "loop" | "done" | "rendered"
    \* ---- _get_latest_pmi_row ----
    pmi_df,         \* the table passed in
    row_result,     \* what the call gave
    row_pc,         \* "idle" | "call" | "done"
    \* ---- fetch_pmi_data ----
    pmi_fetch,      \* per indicator already visited: what its series call did
    pmi,            \* the result dict, entries in insertion order
    pmi_pc,         \* "idle" | "import" | "loop" | "done"
    \* ---- build_market_table ----
    market_table,   \* the rows rendered for each group of market records
    \* ---- build_pmi_block_html ----
    pmi_block,      \* what the call returned
    blk_pc,         \* "idle" | "call" | "done"
    \* ---- format_news_for_prompt ----
    news_in,        \* the bucket passed in, its keys in insertion order
    fmt_i,          \* number of display categories the loop is done with
    sections,       \* the sections built so far
    fmt_pc,         \* "idle" | "loop" | "done"
    \* ---- extract_section ----
    sec_text,       \* md_text, characters
    sec_max,        \* max_chars
    sec_result,     \* the excerpt returned, characters
    sec_pc          \* "idle" | "call" | "done"

mdVars == <<md_text, lines, md_i, html_lines, in_bullet, md_pc>>
aggVars == <<max_items_per_source, fetched, all_news, agg_pc>>

sendCfg == <<SENDGRID_API_KEY, GMAIL_APP_PASSWORD, WECHAT_WEBHOOK_URL,
             WECHAT_WEBHOOK_URL2, GITHUB_REPOSITORY, GITHUB_PAGES_DOMAIN, files>>
mailVars == <<calls, email_result>>
chatVars == <<composed, payload, market, urls_to_send, post_i, posts, success,
              wechat_result>>
sendVars == <<sendCfg, html_public_url, mailVars, chatVars, send_pc>>

genVars == <<generated_content, gen_failure, stages, pdf_raised, gen_pc>>

marketVars == <<mk_hist, data, mk_pc>>
pmiVars == <<pmi_df, row_result, row_pc, pmi_fetch, pmi, pmi_pc>>

tableVars == <<market_table>>
blockVars == <<pmi_block, blk_pc>>
fmtVars == <<news_in, fmt_i, sections, fmt_pc>>
secVars == <<sec_text, sec_max, sec_result, sec_pc>>
laterVars == <<tableVars, blockVars, fmtVars, secVars>>

vars == <<mdVars, aggVars, sendVars, genVars, marketVars, pmiVars, laterVars>>

notMd == <<aggVars, sendVars, genVars, marketVars, pmiVars, laterVars>>
notAgg == <<mdVars, sendVars, genVars, marketVars, pmiVars, laterVars>>
notSend == <<mdVars, aggVars, genVars, marketVars, pmiVars, laterVars>>
notGen == <<aggVars, sendVars, marketVars, pmiVars, laterVars>>
notMarket == <<mdVars, aggVars, sendVars, genVars, pmiVars, laterVars>>
notPmi == <<mdVars, aggVars, sendVars, genVars, marketVars, laterVars>>
notTable == <<mdVars, aggVars, sendVars, genVars, pmiVars, blockVars,
              fmtVars, secVars>>
notBlock == <<mdVars, aggVars, sendVars, genVars, marketVars, tableVars,
              fmtVars, secVars>>
notFmt == <<mdVars, aggVars, sendVars, genVars, marketVars, pmiVars,
            tableVars, blockVars, secVars>>
notSec == <<mdVars, aggVars, sendVars, genVars, marketVars, pmiVars,
            tableVars, blockVars, fmtVars>>

\* ------------------------------------------------------------------------
\* Bounds
\* ------------------------------------------------------------------------
MaxLines == 3
MaxEntries == 2      \* entries served by one feed
MaxCap == 2          \* largest per-feed item cap tried
MaxUnusual == 2      \* tickers whose history is not the default one
MaxRows == 2         \* rows of a table passed to _get_latest_pmi_row
MaxMonth == 2        \* months a table's dates range over

\* ------------------------------------------------------------------------
\* Generic helpers
\* ------------------------------------------------------------------------
Min(a, b) == IF a <= b THEN a ELSE b

NL == "\n"

\* the characters U+00B7 (middle dot) and U+2022 (bullet)
MidDot == "U+00B7"
Blt == "U+2022"

IsSpace(c) == c = " "

RECURSIVE LStrip(_)
LStrip(s) ==
    IF s = <<>> THEN <<>>
    ELSE IF IsSpace(Head(s)) THEN LStrip(Tail(s)) ELSE s

RECURSIVE RStrip(_)
RStrip(s) ==
    IF s = <<>> THEN <<>>
    ELSE IF IsSpace(s[Len(s)]) THEN RStrip(SubSeq(s, 1, Len(s) - 1)) ELSE s

\* str.strip()
Strip(s) == RStrip(LStrip(s))

\* str.startswith(p)
StartsWith(s, p) == Len(s) >= Len(p) /\ SubSeq(s, 1, Len(p)) = p

\* s[n:]
DropFirst(s, n) == SubSeq(s, n + 1, Len(s))

\* str.split(d) for a one-character separator d: always at least one piece
RECURSIVE SplitAcc(_, _, _)
SplitAcc(s, d, cur) ==
    IF s = <<>> THEN <<cur>>
    ELSE IF Head(s) = d THEN <<cur>> \o SplitAcc(Tail(s), d, <<>>)
    ELSE SplitAcc(Tail(s), d, Append(cur, Head(s)))

Split(s, d) == SplitAcc(s, d, <<>>)

\* '\n'.join(ls)
RECURSIVE Join(_, _)
Join(ls, d) ==
    IF ls = <<>> THEN <<>>
    ELSE IF Len(ls) = 1 THEN ls[1]
    ELSE ls[1] \o <<d>> \o Join(Tail(ls), d)

RECURSIVE SeqsUpTo(_, _)
SeqsUpTo(S, n) ==
    IF n = 0 THEN {<<>>}
    ELSE LET P == SeqsUpTo(S, n - 1)
         IN  P \cup {Append(p, x) : p \in {q \in P : Len(q) = n - 1}, x \in S}

\* ------------------------------------------------------------------------
\* fetch_rss_feed / aggregate_all_news
\* ------------------------------------------------------------------------
\* category of each entry of RSS_SOURCES, in list order
RSS_SOURCES ==
    << "global_markets", "global_markets", "global_markets", "global_markets",
       "global_markets", "global_markets", "global_markets", "global_markets",
       "macro", "macro", "macro", "macro",
       "central_banks", "central_banks", "central_banks",
       "commodities", "commodities",
       "tech", "tech",
       "china", "asia", "asia",
       "crypto",
       "global_markets" >>

\* the keys of all_news
Categories ==
    {"global_markets", "macro", "central_banks", "commodities",
     "tech", "china", "asia", "crypto"}

\* What a feed entry can be: a title with text, a title of blanks only, or
\* an entry whose processing raises (e.g. a title that is not a string).
TitledEntry == [title |-> <<" ", "a">>, raises |-> FALSE]
BlankEntry  == [title |-> <<" ">>,      raises |-> FALSE]
BadEntry    == [title |-> <<>>,         raises |-> TRUE]
EntryChoices == {TitledEntry, BlankEntry, BadEntry}

\* What feedparser.parse can do for one source: raise, or return entries.
FeedChoices ==
    {[raises |-> TRUE, entries |-> <<>>]}
    \cup {[raises |-> FALSE, entries |-> es] : es \in SeqsUpTo(EntryChoices, MaxEntries)}

NoEntries == [raises |-> FALSE, entries |-> <<>>]

\* the sources whose feed serves entries or fails; every other feed is empty
Responding == {1, 9, 24}

\* entries[:max_items]
FirstN(s, n) == SubSeq(s, 1, Min(n, Len(s)))

\* variant of FeedLoop without the "if title:" test
RECURSIVE FeedLoopNoFilter(_, _, _)
FeedLoopNoFilter(src, es, k) ==
    IF k > Len(es) THEN <<>>
    ELSE IF es[k].raises THEN <<>>
    ELSE <<[source |-> src, category |-> RSS_SOURCES[src],
            title |-> Strip(es[k].title), link |-> k]>>
         \o FeedLoopNoFilter(src, es, k + 1)

\* the for loop of fetch_rss_feed over entries k..: items appended until
\* an entry raises; the except clause then falls through to "return items"
RECURSIVE FeedLoop(_, _, _)
FeedLoop(src, es, k) ==
    IF k > Len(es) THEN <<>>
    ELSE IF es[k].raises THEN <<>>
    ELSE IF Strip(es[k].title) # <<>>
         THEN <<[source |-> src, category |-> RSS_SOURCES[src],
                 title |-> Strip(es[k].title), link |-> k]>>
              \o FeedLoop(src, es, k + 1)
         ELSE FeedLoop(src, es, k + 1)

fetch_rss_feed(src, feed, max_items) ==
    IF feed.raises THEN <<>>
    ELSE IF feed.entries = <<>> THEN <<>>
    ELSE FeedLoop(src, FirstN(feed.entries, max_items), 1)

\* variant of AggSource: the items are put in front of the category's list
AggSourcePrepend ==
    /\ agg_pc = "loop"
    /\ Len(fetched) < Len(RSS_SOURCES)
    /\ LET src == Len(fetched) + 1 IN
       \E feed \in (IF src \in Responding THEN FeedChoices ELSE {NoEntries}) :
         LET items == fetch_rss_feed(src, feed, max_items_per_source) IN
         /\ fetched' = Append(fetched, [feed |-> feed, items |-> items])
         /\ all_news' = IF items # <<>>
                        THEN [all_news EXCEPT ![RSS_SOURCES[src]] = items \o @]
                        ELSE all_news
    /\ UNCHANGED <<max_items_per_source, agg_pc>>
    /\ UNCHANGED notAgg

\* one iteration of "for i, source in enumerate(RSS_SOURCES)"
AggSource ==
    /\ agg_pc = "loop"
    /\ Len(fetched) < Len(RSS_SOURCES)
    /\ LET src == Len(fetched) + 1 IN
       \E feed \in (IF src \in Responding THEN FeedChoices ELSE {NoEntries}) :
         LET items == fetch_rss_feed(src, feed, max_items_per_source) IN
         /\ fetched' = Append(fetched, [feed |-> feed, items |-> items])
         /\ all_news' = IF items # <<>>
                        THEN [all_news EXCEPT ![RSS_SOURCES[src]] = @ \o items]
                        ELSE all_news
    /\ UNCHANGED <<max_items_per_source, agg_pc>>
    /\ UNCHANGED notAgg

\* after the loop: return all_news
AggReturn ==
    /\ agg_pc = "loop"
    /\ Len(fetched) = Len(RSS_SOURCES)
    /\ agg_pc' = "done"
    /\ UNCHANGED <<max_items_per_source, fetched, all_news>>
    /\ UNCHANGED notAgg

AggNext == AggSource \/ AggReturn

\* ------------------------------------------------------------------------
\* process_inline: re.sub(r'\*\*(.+?)\*\*', ...) then re.sub(r'\*(.+?)\*', ...)
\* ------------------------------------------------------------------------
\* least j >= from with s[j..j+Len(m)-1] = m, or 0
FindFrom(s, m, from) ==
    LET C == {j \in from..(Len(s) - Len(m) + 1) : SubSeq(s, j, j + Len(m) - 1) = m}
    IN  IF C = {} THEN 0 ELSE CHOOSE j \in C : \A k \in C : j <= k

\* re.sub(m (.+?) m, open \1 close, s): leftmost, non-greedy, non-overlapping
RECURSIVE SubDelim(_, _, _, _)
SubDelim(s, m, open, close) ==
    IF s = <<>> THEN <<>>
    ELSE IF StartsWith(s, m) /\ FindFrom(s, m, Len(m) + 2) # 0
         THEN LET j == FindFrom(s, m, Len(m) + 2)
              IN  <<open>> \o SubSeq(s, Len(m) + 1, j - 1) \o <<close>>
                  \o SubDelim(DropFirst(s, j + Len(m) - 1), m, open, close)
         ELSE <<Head(s)>> \o SubDelim(Tail(s), m, open, close)

process_inline(text) ==
    SubDelim(SubDelim(text, <<"*", "*">>, "<strong>", "</strong>"),
             <<"*">>, "<em>", "</em>")

\* ------------------------------------------------------------------------
\* markdown_to_html
\* ------------------------------------------------------------------------
El(tag, text) == [tag |-> tag, text |-> text]

UlOpen  == El("ul", <<>>)      \* '<ul class="bullet-list">'
UlClose == El("/ul", <<>>)     \* '</ul>'

\* variant of CloseList that forgets the open list
CloseListNever(inb) == <<>>

\* "if in_bullet: html_lines.append('</ul>')"
CloseList(inb) == IF inb THEN <<UlClose>> ELSE <<>>

\* variant of OpenList that opens a list on every bullet line
OpenListAlways(inb) == <<UlOpen>>

\* "if not in_bullet: html_lines.append('<ul class="bullet-list">')"
OpenList(inb) == IF inb THEN <<>> ELSE <<UlOpen>>

\* re.match(r'^## ', line), re.match(r'^### ', line), re.match(r'^- ', line)
IsH2(line)   == StartsWith(line, <<"#", "#", " ">>)
IsH3(line)   == StartsWith(line, <<"#", "#", "#", " ">>)
IsDash(line) == StartsWith(line, <<"-", " ">>)
IsHr(line)   == Strip(line) = <<"-", "-", "-">>
IsDot(line)  == StartsWith(Strip(line), <<MidDot>>)
IsBlt(line)  == StartsWith(Strip(line), <<Blt, " ">>)
IsBullet(line) == IsDot(line) \/ IsBlt(line) \/ IsDash(line)

\* [p.strip() for p in stripped.split(MIDDLE DOT) if p.strip()]
RECURSIVE NonEmptyStripped(_)
NonEmptyStripped(ps) ==
    IF ps = <<>> THEN <<>>
    ELSE IF Strip(Head(ps)) # <<>>
         THEN <<Strip(Head(ps))>> \o NonEmptyStripped(Tail(ps))
         ELSE NonEmptyStripped(Tail(ps))

\* variant of DotParts that keeps the empty segments
DotPartsUnfiltered(line) ==
    LET ps == Split(Strip(line), MidDot)
    IN  [k \in 1..Len(ps) |-> Strip(ps[k])]

\* parts, for a line whose stripped text starts with the middle dot
DotParts(line) == NonEmptyStripped(Split(Strip(line), MidDot))

\* the <li> lines appended for one bullet line
BulletItems(line) ==
    IF IsDot(line)
    THEN [k \in 1..Len(DotParts(line)) |-> El("li", process_inline(DotParts(line)[k]))]
    ELSE IF IsBlt(line)
    THEN <<El("li", process_inline(Strip(DropFirst(Strip(line), 2))))>>
    ELSE <<El("li", process_inline(Strip(DropFirst(line, 2))))>>

\* the kind of line, by the if/elif chain of the loop body
LineKind(line) ==
    IF IsH2(line) THEN "h2"
    ELSE IF IsH3(line) THEN "h3"
    ELSE IF IsHr(line) THEN "hr"
    ELSE IF IsBullet(line) THEN "bullet"
    ELSE IF Strip(line) = <<>> THEN "blank"
    ELSE "p"

\* what one iteration of the loop appends to html_lines
LineOutput(line, inb) ==
    CASE LineKind(line) = "h2" ->
            CloseList(inb) \o <<El("h2", process_inline(Strip(DropFirst(line, 3))))>>
      [] LineKind(line) = "h3" ->
            CloseList(inb) \o <<El("h3", process_inline(Strip(DropFirst(line, 4))))>>
      [] LineKind(line) = "hr" ->
            CloseList(inb) \o <<El("hr", <<>>)>>
      [] LineKind(line) = "bullet" ->
            OpenList(inb) \o BulletItems(line)
      [] LineKind(line) = "blank" ->
            CloseList(inb) \o <<El("blank", <<>>)>>
      [] OTHER ->
            CloseList(inb) \o <<El("p", process_inline(Strip(line)))>>

\* in_bullet after one iteration
LineInBullet(line, inb) == LineKind(line) = "bullet"

\* representative lines of a report draft
LineChoices ==
    { <<"#", "#", " ", "H">>,                     \* "## H"
      <<" ", "#", "#", " ", "H">>,                \* " ## H"
      <<"#", "#", "#", " ", "H">>,                \* "### H"
      <<"#", "#">>,                               \* "##"
      <<"-", "-", "-">>,                          \* "---"
      <<" ", "-", "-", "-", " ">>,                \* " --- "
      <<"-", " ", "a">>,                          \* "- a"
      <<" ", "-", " ", "a">>,                     \* " - a"
      <<MidDot, "a", MidDot, "b", MidDot, "c">>,           \* MidDot a MidDot b MidDot c
      <<MidDot>>,                                    \* MidDot
      <<" ", MidDot, "a", MidDot, MidDot, " ", "b", " ">>, \* " .a.. b " with MidDot for "."
      <<Blt, " ", "a">>,                          \* Blt, space, "a"
      <<>>,                                       \* ""
      <<" ">>,                                    \* " "
      <<"a">>,                                    \* "a"
      <<"-", " ", "*", "*", "a", "*", "*", "*", "b", "*">>  \* "- **a***b*"
    }

\* a heading, a blank line, a "- " item and a rule
ExampleLines ==
    << <<"#", "#", " ", "H">>, <<>>, <<"-", " ", "a">>, <<"-", "-", "-">> >>

MdInputs ==
    {Join(ls, NL) : ls \in SeqsUpTo(LineChoices, MaxLines) \ {<<>>}}
    \cup {Join(ExampleLines, NL)}

\* one iteration of "for line in lines"
MdLine ==
    /\ md_pc = "loop"
    /\ md_i < Len(lines)
    /\ html_lines' = html_lines \o LineOutput(lines[md_i + 1], in_bullet)
    /\ in_bullet' = LineInBullet(lines[md_i + 1], in_bullet)
    /\ md_i' = md_i + 1
    /\ UNCHANGED <<md_text, lines, md_pc>>
    /\ UNCHANGED notMd

\* after the loop: "if in_bullet: html_lines.append('</ul>')" and return
MdEnd ==
    /\ md_pc = "loop"
    /\ md_i = Len(lines)
    /\ html_lines' = html_lines \o CloseList(in_bullet)
    /\ md_pc' = "done"
    /\ UNCHANGED <<md_text, lines, md_i, in_bullet>>
    /\ UNCHANGED notMd

MdNext == MdLine \/ MdEnd

\* ------------------------------------------------------------------------
\* send_report.py: configuration and get_html_public_url
\* ------------------------------------------------------------------------
Chars(n, c) == [k \in 1..n |-> c]

\* f"investment_research_{report_date}.html": 35 characters
HtmlFilename == Chars(35, "f")

HttpsPrefix == <<"h", "t", "t", "p", "s", ":", "/", "/">>
GithubIo == <<".", "g", "i", "t", "h", "u", "b", ".", "i", "o", "/">>

get_html_public_url(html_filename) ==
    IF GITHUB_PAGES_DOMAIN # <<>>
    THEN HttpsPrefix \o GITHUB_PAGES_DOMAIN \o <<"/">> \o html_filename
    ELSE IF GITHUB_REPOSITORY # <<>> /\ Len(Split(GITHUB_REPOSITORY, "/")) = 2
    THEN HttpsPrefix \o Split(GITHUB_REPOSITORY, "/")[1] \o GithubIo
         \o Split(GITHUB_REPOSITORY, "/")[2] \o <<"/">> \o html_filename
    ELSE <<>>

RepositoryChoices ==
    { <<>>, <<"o", "/", "r">>, <<"o">>, <<"o", "/", "r", "/", "x">> }

DomainChoices == { <<>>, <<"d", ".", "i", "o">> }

FileStates == {"ok", "no_html", "no_pdf"}

\* __main__: html_public_url = get_html_public_url(...), then send_email(...)
MainStart ==
    /\ send_pc = "main"
    /\ html_public_url' = get_html_public_url(HtmlFilename)
    /\ send_pc' = "send_email"
    /\ UNCHANGED <<sendCfg, mailVars, chatVars>>
    /\ UNCHANGED notSend

\* ------------------------------------------------------------------------
\* send_email, send_via_sendgrid, send_via_gmail_smtp
\* ------------------------------------------------------------------------
\* send_email: "if SENDGRID_API_KEY:" chooses the first transport
SendEmailGate(key) == IF key # "" THEN "sendgrid" ELSE "gmail"

send_email ==
    /\ send_pc = "send_email"
    /\ send_pc' = SendEmailGate(SENDGRID_API_KEY)
    /\ UNCHANGED <<sendCfg, html_public_url, mailVars, chatVars>>
    /\ UNCHANGED notSend

\* what the body of send_via_sendgrid can return; every exception is caught
SendgridOutcomes ==
    IF SENDGRID_API_KEY = "" THEN {"False"}
    ELSE IF files # "ok" THEN {"False"}          \* open() raises inside the try
    ELSE {"True", "False"}                        \* 200/202, other status, or an error

\* variant of AfterSendgrid without the "if success: return True"
AfterSendgridAlwaysFallback(r) == "gmail"

\* where send_email goes after the primary transport returned r
AfterSendgrid(r) == IF r = "True" THEN "send_wechat_work" ELSE "gmail"

send_via_sendgrid ==
    /\ send_pc = "sendgrid"
    /\ \E r \in SendgridOutcomes :
         /\ calls' = Append(calls, [transport |-> "sendgrid", result |-> r])
         /\ send_pc' = AfterSendgrid(r)
         /\ email_result' = IF r = "True" THEN "True" ELSE email_result
    /\ UNCHANGED <<sendCfg, html_public_url, chatVars>>
    /\ UNCHANGED notSend

\* what send_via_gmail_smtp can do: the two open() calls are outside the try
GmailOutcomes ==
    IF GMAIL_APP_PASSWORD = "" THEN {"False"}
    ELSE IF files # "ok" THEN {"raised"}
    ELSE {"True", "False"}                        \* sent, or an SMTP error caught

send_via_gmail_smtp ==
    /\ send_pc = "gmail"
    /\ \E r \in GmailOutcomes :
         /\ calls' = Append(calls, [transport |-> "gmail", result |-> r])
         /\ email_result' = r
         \* an exception leaves send_email and the __main__ block
         /\ send_pc' = IF r = "raised" THEN "crashed" ELSE "send_wechat_work"
    /\ UNCHANGED <<sendCfg, html_public_url, chatVars>>
    /\ UNCHANGED notSend

\* ------------------------------------------------------------------------
\* send_wechat_work: composition
\* ------------------------------------------------------------------------
Seg(kind, len) == [kind |-> kind, len |-> len]

RECURSIVE MsgLen(_)
MsgLen(m) == IF m = <<>> THEN 0 ELSE Head(m).len + MsgLen(Tail(m))

\* m[:n]
RECURSIVE Take(_, _)
Take(m, n) ==
    IF m = <<>> \/ n <= 0 THEN <<>>
    ELSE IF Head(m).len <= n THEN <<Head(m)>> \o Take(Tail(m), n - Head(m).len)
    ELSE <<Seg(Head(m).kind, n)>>

WechatLimit == 4000     \* "if len(full_message) > 4000"
WechatKeep == 3950      \* "full_message[:3950]"
LinkWrapLen == 20       \* the link markup around the URL
NoticeLen == 23         \* the "sent by email" line
TruncMarkLen == 11      \* the "content truncated" line before the repeated link
FooterRuleLen == 6      \* "\n" joining the parts, then "\n---\n"
FooterTailLen == 35     \* blank line and disclaimer

\* length of link_line
LinkLineLen(url) == IF url # <<>> THEN LinkWrapLen + Len(url) ELSE NoticeLen

\* variant of LinkLine: the link markup is written whatever the URL
LinkLineAlwaysLink(url) == Seg("link", LinkLineLen(url))

\* link_line as a segment
LinkLine(url) == Seg(IF url # <<>> THEN "link" ELSE "notice", LinkLineLen(url))

\* "\n".join(message_parts): everything before the footer, then the footer
Compose(bodyLen, url) ==
    << Seg("body", bodyLen), Seg("rule", FooterRuleLen), LinkLine(url),
       Seg("tail", FooterTailLen) >>

\* the length check and truncation
Truncate(m, url) ==
    IF MsgLen(m) > WechatLimit
    THEN Take(m, WechatKeep) \o <<Seg("mark", TruncMarkLen), LinkLine(url)>>
    ELSE m

\* lengths of the text before the footer: header and section titles only,
\* a usual report, and drafts around and beyond the limit
BodyLens == {230, 3300, 3930, 3960, 5000}

NumIndices == 8
NumCommodities == 5

MarketChoices ==
    { [indices |-> <<>>, commodities |-> <<>>],          \* file unreadable
      [indices |-> [k \in 1..NumIndices |-> k],
       commodities |-> [k \in 1..NumCommodities |-> k]] }

\* [u for u in [WECHAT_WEBHOOK_URL, WECHAT_WEBHOOK_URL2] if u]
UrlsToSend ==
    (IF WECHAT_WEBHOOK_URL # "" THEN <<WECHAT_WEBHOOK_URL>> ELSE <<>>)
    \o (IF WECHAT_WEBHOOK_URL2 # "" THEN <<WECHAT_WEBHOOK_URL2>> ELSE <<>>)

\* send_wechat_work up to the for loop
send_wechat_work ==
    /\ send_pc = "send_wechat_work"
    /\ IF WECHAT_WEBHOOK_URL = ""
       THEN /\ wechat_result' = "False"
            /\ send_pc' = "done"
            /\ UNCHANGED <<composed, payload, market, urls_to_send, post_i,
                           posts, success>>
       ELSE /\ \E md \in MarketChoices : market' = md
            /\ \E b \in BodyLens :
                 /\ composed' = Compose(b, html_public_url)
                 /\ payload' = Truncate(Compose(b, html_public_url), html_public_url)
            /\ success' = FALSE
            /\ urls_to_send' = UrlsToSend
            /\ post_i' = 0
            /\ send_pc' = "post"
            /\ UNCHANGED <<posts, wechat_result>>
    /\ UNCHANGED <<sendCfg, html_public_url, mailVars>>
    /\ UNCHANGED notSend

\* ------------------------------------------------------------------------
\* send_wechat_work: the for loop over urls_to_send, _send_wechat_fallback_url
\* ------------------------------------------------------------------------
\* requests.post / raise_for_status / resp.json() / errcode
PostOutcomes == {"errcode_0", "errcode_45009", "errcode_other", "http_error", "raise"}

\* variant of NeedsFallback that takes every refusal for "too long"
NeedsFallbackOnAnyFailure(o) == o # "errcode_0"

\* "if result.get('errcode') == 45009": the fallback is sent
NeedsFallback(o) == o = "errcode_45009"

\* the message of _send_wechat_fallback_url
FallbackMsg ==
    [indices |-> FirstN(market.indices, 6),
     commodities |-> FirstN(market.commodities, 4),
     link |-> LinkLine(html_public_url).kind]

\* variant of PostFull: a failed post is made again on the same URL
PostFullRetries ==
    /\ send_pc = "post"
    /\ post_i < Len(urls_to_send)
    /\ \E o \in PostOutcomes :
         /\ posts' = Append(posts, [url |-> urls_to_send[post_i + 1], kind |-> "full",
                                    outcome |-> o, content |-> payload])
         /\ success' = IF o = "errcode_0" THEN TRUE ELSE success
         /\ IF NeedsFallback(o)
            THEN send_pc' = "fallback" /\ UNCHANGED post_i
            ELSE /\ send_pc' = "post"
                 /\ post_i' = IF o = "errcode_0" THEN post_i + 1 ELSE post_i
    /\ UNCHANGED <<composed, payload, market, urls_to_send, wechat_result>>
    /\ UNCHANGED <<sendCfg, html_public_url, mailVars>>
    /\ UNCHANGED notSend

\* one iteration of the loop: the post of the full message
PostFull ==
    /\ send_pc = "post"
    /\ post_i < Len(urls_to_send)
    /\ \E o \in PostOutcomes :
         /\ posts' = Append(posts, [url |-> urls_to_send[post_i + 1], kind |-> "full",
                                    outcome |-> o, content |-> payload])
         /\ success' = IF o = "errcode_0" THEN TRUE ELSE success
         /\ IF NeedsFallback(o)
            THEN send_pc' = "fallback" /\ UNCHANGED post_i
            ELSE send_pc' = "post" /\ post_i' = post_i + 1
    /\ UNCHANGED <<composed, payload, market, urls_to_send, wechat_result>>
    /\ UNCHANGED <<sendCfg, html_public_url, mailVars>>
    /\ UNCHANGED notSend

\* _send_wechat_fallback_url: its result is ignored by the caller
FallbackOutcomes == {"errcode_0", "errcode_other", "raise"}

\* variant of PostFallback: an accepted fallback counts as a success
PostFallbackCounts ==
    /\ send_pc = "fallback"
    /\ \E o \in FallbackOutcomes :
         /\ posts' = Append(posts, [url |-> urls_to_send[post_i + 1], kind |-> "fallback",
                                    outcome |-> o, content |-> FallbackMsg])
         /\ success' = IF o = "errcode_0" THEN TRUE ELSE success
    /\ post_i' = post_i + 1
    /\ send_pc' = "post"
    /\ UNCHANGED <<composed, payload, market, urls_to_send, wechat_result>>
    /\ UNCHANGED <<sendCfg, html_public_url, mailVars>>
    /\ UNCHANGED notSend

PostFallback ==
    /\ send_pc = "fallback"
    /\ \E o \in FallbackOutcomes :
         posts' = Append(posts, [url |-> urls_to_send[post_i + 1], kind |-> "fallback",
                                 outcome |-> o, content |-> FallbackMsg])
    /\ post_i' = post_i + 1
    /\ send_pc' = "post"
    /\ UNCHANGED <<composed, payload, market, urls_to_send, success, wechat_result>>
    /\ UNCHANGED <<sendCfg, html_public_url, mailVars>>
    /\ UNCHANGED notSend

\* "return success"
WechatReturn ==
    /\ send_pc = "post"
    /\ post_i = Len(urls_to_send)
    /\ wechat_result' = IF success THEN "True" ELSE "False"
    /\ send_pc' = "done"
    /\ UNCHANGED <<composed, payload, market, urls_to_send, post_i, posts, success>>
    /\ UNCHANGED <<sendCfg, html_public_url, mailVars>>
    /\ UNCHANGED notSend

SendNext ==
    \/ MainStart
    \/ send_email
    \/ send_via_sendgrid
    \/ send_via_gmail_smtp
    \/ send_wechat_work
    \/ PostFull
    \/ PostFallback
    \/ WechatReturn

\* ------------------------------------------------------------------------
\* generate_report.py: main and generate_report_content
\* ------------------------------------------------------------------------
\* the literal returned by the except clause: heading, blank line, the
\* error text, blank line, a hint
FallbackBlock ==
    Join(<< <<"#", "#", " ", "F">>, <<>>, <<"e">>, <<>>, <<"c">> >>, NL)

\* 1. market_data = fetch_market_data(); every ticker failure is caught
MainFetchMarket ==
    /\ gen_pc = "fetch_market_data"
    /\ stages' = Append(stages, "fetch_market_data")
    /\ gen_pc' = "aggregate_all_news"
    /\ UNCHANGED <<generated_content, gen_failure, pdf_raised>>
    /\ UNCHANGED <<mdVars, notGen>>

\* 2. all_news = aggregate_all_news(6); news_text = format_news_for_prompt(...)
MainAggregateNews ==
    /\ gen_pc = "aggregate_all_news"
    /\ stages' = Append(stages, "aggregate_all_news")
    /\ gen_pc' = "generate_report_content"
    /\ UNCHANGED <<generated_content, gen_failure, pdf_raised>>
    /\ UNCHANGED <<mdVars, notGen>>

\* what can happen inside generate_report_content
GenOutcomes == {"ok", "client", "call"}

\* "client = openai.OpenAI(base_url=base_url)" stands before the try:
\* an error there leaves the function; an error in the call is caught
GenRaises(o) == o = "client"

\* 3. generated_content = generate_report_content(market_data, news_text)
MainGenerate ==
    /\ gen_pc = "generate_report_content"
    /\ \E o \in GenOutcomes :
         /\ gen_failure' = IF o = "ok" THEN "none" ELSE o
         /\ IF GenRaises(o)
            THEN /\ gen_pc' = "crashed"
                 /\ UNCHANGED <<generated_content, stages>>
            ELSE /\ \E c \in (IF o = "ok" THEN MdInputs ELSE {FallbackBlock}) :
                      generated_content' = c
                 /\ stages' = Append(stages, "generate_report_content")
                 /\ gen_pc' = "fetch_pmi_data"
    /\ UNCHANGED pdf_raised
    /\ UNCHANGED <<mdVars, notGen>>

\* variant of MainFetchPmi: the step hands control back to step 1
MainFetchPmiRestarts ==
    /\ gen_pc = "fetch_pmi_data"
    /\ stages' = Append(stages, "fetch_pmi_data")
    /\ gen_pc' = "fetch_market_data"
    /\ UNCHANGED <<generated_content, gen_failure, pdf_raised>>
    /\ UNCHANGED <<mdVars, notGen>>

\* 3.5 pmi_data = fetch_pmi_data(); every indicator failure is caught
MainFetchPmi ==
    /\ gen_pc = "fetch_pmi_data"
    /\ stages' = Append(stages, "fetch_pmi_data")
    /\ gen_pc' = "generate_html_report"
    /\ UNCHANGED <<generated_content, gen_failure, pdf_raised>>
    /\ UNCHANGED <<mdVars, notGen>>

\* 4. generate_html_report: content_html = markdown_to_html(generated_content)
MainRenderStart ==
    /\ gen_pc = "generate_html_report"
    /\ md_text' = generated_content
    /\ lines' = Split(generated_content, NL)
    /\ md_i' = 0
    /\ html_lines' = <<>>
    /\ in_bullet' = FALSE
    /\ md_pc' = "loop"
    /\ gen_pc' = "markdown_to_html"
    /\ UNCHANGED <<generated_content, gen_failure, stages, pdf_raised>>
    /\ UNCHANGED notGen

\* 4. the rest of generate_html_report, the HTML file written
MainRenderEnd ==
    /\ gen_pc = "markdown_to_html"
    /\ md_pc = "done"
    /\ stages' = Append(stages, "generate_html_report")
    /\ gen_pc' = "generate_pdf_from_html"
    /\ UNCHANGED <<generated_content, gen_failure, pdf_raised>>
    /\ UNCHANGED <<mdVars, notGen>>

\* variant of MainPdf: an error of the renderer is caught and main returns
MainPdfCaught ==
    /\ gen_pc = "generate_pdf_from_html"
    /\ \E ok \in BOOLEAN :
         /\ pdf_raised' = ~ok
         /\ stages' = IF ok THEN Append(stages, "generate_pdf_from_html")
                      ELSE stages
         /\ gen_pc' = "done"
    /\ UNCHANGED <<generated_content, gen_failure>>
    /\ UNCHANGED <<mdVars, notGen>>

\* 5. generate_pdf_from_html: an error of the renderer is not caught, main
\* neither prints its last line nor returns the two paths
MainPdf ==
    /\ gen_pc = "generate_pdf_from_html"
    /\ \E ok \in BOOLEAN :
         /\ pdf_raised' = ~ok
         /\ IF ok
            THEN /\ stages' = Append(stages, "generate_pdf_from_html")
                 /\ gen_pc' = "done"
            ELSE /\ gen_pc' = "crashed"
                 /\ UNCHANGED stages
    /\ UNCHANGED <<generated_content, gen_failure>>
    /\ UNCHANGED <<mdVars, notGen>>

GenNext ==
    \/ MainFetchMarket
    \/ MainAggregateNews
    \/ MainGenerate
    \/ MainFetchPmi
    \/ MainRenderStart
    \/ MdLine
    \/ MdEnd
    \/ MainRenderEnd
    \/ MainPdf

\* ------------------------------------------------------------------------
\* generate_report.py: fetch_market_data
\* ------------------------------------------------------------------------
\* the three ticker tables; a ticker is named by its Yahoo symbol
INDEX_TICKERS ==
    << "000001.SS", "399001.SZ", "399006.SZ", "^DJI", "^IXIC", "^GSPC",
       "^HSI", "^N225" >>

COMMODITY_TICKERS == << "GC=F", "CL=F", "BZ=F", "HG=F", "SI=F" >>

FOREX_TICKERS == << "DX-Y.NYB", "CNY=X", "EURUSD=X", "JPY=X", "GBPUSD=X" >>

\* the order in which the three get_ticker_data calls visit the tickers
TickerOrder ==
    [k \in 1..Len(INDEX_TICKERS) |->
        [category |-> "indices", name |-> INDEX_TICKERS[k]]]
    \o [k \in 1..Len(COMMODITY_TICKERS) |->
        [category |-> "commodities", name |-> COMMODITY_TICKERS[k]]]
    \o [k \in 1..Len(FOREX_TICKERS) |->
        [category |-> "forex", name |-> FOREX_TICKERS[k]]]

\* closes are held in hundredths: 10500 is 105.00
DefaultHist == [raised |-> FALSE, closes |-> <<10000, 10500>>]

\* the closes a history can hold
CloseChoices ==
    { <<>>, <<10000>>, <<10000, 10500>>, <<10500, 10000>>,
      <<10000, 10000>>, <<30000, 29999>>, <<0, 10000>>,
      <<10500, 10000, 10500>> }

\* what t.history(period="2d") can do: raise, or return the closes
HistChoices ==
    {[raised |-> TRUE, closes |-> <<>>]}
    \cup {[raised |-> FALSE, closes |-> c] : c \in CloseChoices}

DigitChars == <<"0", "1", "2", "3", "4", "5", "6", "7", "8", "9">>

\* the decimal digits of n >= 0
RECURSIVE Digits(_)
Digits(n) ==
    IF n < 10 THEN <<DigitChars[n + 1]>>
    ELSE Append(Digits(n \div 10), DigitChars[(n % 10) + 1])

\* f"{x:.2f}" for x = n / 100, n >= 0
Fixed2(n) ==
    Digits(n \div 100) \o <<".", DigitChars[((n \div 10) % 10) + 1],
                            DigitChars[(n % 10) + 1]>>

\* f"{x:+.2f}" for a value of sign neg and rounded magnitude n / 100
SignedFixed2(neg, n) == <<(IF neg THEN "-" ELSE "+")>> \o Fixed2(n)

Abs(x) == IF x < 0 THEN -x ELSE x

\* n / d rounded to the nearest integer, n >= 0, d > 0
RoundDiv(n, d) == (2 * n + d) \div (2 * d)

\* variant of HistRaises: a history of one close is refused as well
HistRaisesOnSingle(h) == h.raised \/ Len(h.closes) <= 1

\* the history call raised, or "else: raise ValueError("No data")"
HistRaises(h) == h.raised \/ Len(h.closes) = 0

\* prev_close of closes c, at least one close
PrevClose(c) == IF Len(c) >= 2 THEN c[Len(c) - 1] ELSE c[Len(c)]

\* last_price of closes c, at least one close
LastPrice(c) == c[Len(c)]

\* pct = (change / prev_close) * 100 if prev_close else 0, held as its sign,
\* whether it is zero, and its magnitude in hundredths of a percent rounded
\* to the nearest as ":+.2f" rounds
Pct(change, prev_close) ==
    IF prev_close = 0 THEN [neg |-> FALSE, zero |-> TRUE, hundredths |-> 0]
    ELSE [neg |-> change # 0 /\ ((change < 0) # (prev_close < 0)),
          zero |-> change = 0,
          hundredths |-> RoundDiv(Abs(change) * 10000, Abs(prev_close))]

\* variant of IsUp: is_up = pct > 0
IsUpStrict(pct) == IF pct.neg \/ pct.zero THEN 0 ELSE 1

\* is_up = pct >= 0, then int(is_up)
IsUp(pct) == IF pct.neg THEN 0 ELSE 1

NA == <<"N", "/", "A">>

\* the record of the except clause
SentinelRecord ==
    [price |-> NA, change |-> NA, pct |-> NA, is_up |-> -1, display |-> NA]

\* the record of the try body for closes c, at least one close
QuoteRecord(c) ==
    LET last_price == LastPrice(c)
        prev_close == PrevClose(c)
        change == last_price - prev_close
        pct == Pct(change, prev_close)
        pct_text == SignedFixed2(pct.neg, pct.hundredths) \o <<"%">>
    IN  [price |-> Fixed2(last_price),
         change |-> SignedFixed2(change < 0, Abs(change)),
         pct |-> pct_text,
         is_up |-> IsUp(pct),
         display |-> Fixed2(last_price) \o <<" ", "(">> \o pct_text \o <<")">>]

\* one iteration of the for loop of get_ticker_data
TickerRecord(h) ==
    IF HistRaises(h) THEN SentinelRecord ELSE QuoteRecord(h.closes)

\* d[name] = rec on a dict held as a list of entries in insertion order
DictSet(d, name, rec) ==
    IF \E k \in 1..Len(d) : d[k].name = name
    THEN [k \in 1..Len(d) |->
            IF d[k].name = name THEN [name |-> name, rec |-> rec] ELSE d[k]]
    ELSE Append(d, [name |-> name, rec |-> rec])

\* tickers visited so far whose history was not the default one
Unusual(hs) == Cardinality({k \in 1..Len(hs) : hs[k] # DefaultHist})

\* get_ticker_data: the next ticker of the three tables
GetTicker ==
    /\ mk_pc = "loop"
    /\ Len(mk_hist) < Len(TickerOrder)
    /\ LET t == TickerOrder[Len(mk_hist) + 1]
       IN  \E h \in (IF Unusual(mk_hist) < MaxUnusual
                     THEN HistChoices ELSE {DefaultHist}) :
             /\ mk_hist' = Append(mk_hist, h)
             /\ data' = [data EXCEPT
                           ![t.category] = DictSet(@, t.name, TickerRecord(h))]
    /\ UNCHANGED mk_pc
    /\ UNCHANGED notMarket

\* return data
MarketReturn ==
    /\ mk_pc = "loop"
    /\ Len(mk_hist) = Len(TickerOrder)
    /\ mk_pc' = "done"
    /\ UNCHANGED <<mk_hist, data>>
    /\ UNCHANGED notMarket

\* the three arrow glyphs of a table row
ArrowUp == "U+25B2"
ArrowDown == "U+25BC"
ArrowNone == "U+2014"

\* variant of RowState with two states only
RowStateTwoWay(is_up) ==
    IF is_up = 1 THEN [color_class |-> "up", arrow |-> ArrowUp]
    ELSE [color_class |-> "down", arrow |-> ArrowDown]

\* "if is_up == 1: ... elif is_up == 0: ... else: ..."
RowState(is_up) ==
    IF is_up = 1 THEN [color_class |-> "up", arrow |-> ArrowUp]
    ELSE IF is_up = 0 THEN [color_class |-> "down", arrow |-> ArrowDown]
    ELSE [color_class |-> "neutral", arrow |-> ArrowNone]

\* row(name, info): the four cells of a table row
TableRow(name, info) ==
    [name |-> name,
     price |-> info.price,
     change |-> <<RowState(info.is_up).arrow, " ">> \o info.change,
     pct |-> info.pct,
     color_class |-> RowState(info.is_up).color_class]

\* ''.join([row(k, v) for k, v in market_data[group].items()])
GroupRows(d) == [k \in 1..Len(d) |-> TableRow(d[k].name, d[k].rec)]

\* build_market_table called in generate_html_report on the fetched data
build_market_table ==
    /\ mk_pc = "done"
    /\ market_table' = [g \in DOMAIN data |-> GroupRows(data[g])]
    /\ mk_pc' = "rendered"
    /\ UNCHANGED <<mk_hist, data>>
    /\ UNCHANGED notTable

MarketNext ==
    \/ GetTicker
    \/ MarketReturn
    \/ build_market_table

\* ------------------------------------------------------------------------
\* generate_report.py: _get_latest_pmi_row and fetch_pmi_data
\* ------------------------------------------------------------------------
\* a cell of the value or the previous-value column: a number (in tenths),
\* a missing value (NaN), a blank string, or the text 'nan' / 'None'
Num(v) == [kind |-> "num", v |-> v]
Missing == [kind |-> "missing", v |-> 0]
BlankText == [kind |-> "blank", v |-> 0]
NanText == [kind |-> "nan_text", v |-> 0]

\* a date cell is a month number, or NoDate for a text that
\* pd.to_datetime(errors='coerce') turns into NaT
NoDate == 0
Months == 1..MaxMonth

ValueChoices == {Num(501), Num(498), Missing, BlankText, NanText}
PrevChoices == {Num(495), Missing}

RowChoices ==
    [date : {NoDate} \cup Months, value : ValueChoices, prev : PrevChoices]

\* a table with the three columns and at most MaxRows rows
Tables == [has_cols : {TRUE}, rows : SeqsUpTo(RowChoices, MaxRows)]

\* df.dropna(subset=[date_col]) after the dates are parsed
ParsedRows(rows) == SelectSeq(rows, LAMBDA r : r.date # NoDate)

Perms(n) == {f \in [1..n -> 1..n] : \A i, j \in 1..n : f[i] = f[j] => i = j}

\* df.sort_values(date_col, ascending=False): every order the sort can
\* return; rows of equal date come in an order the sort does not promise
SortedDesc(rows) ==
    LET n == Len(rows)
    IN  { [k \in 1..n |-> rows[f[k]]] :
            f \in {g \in Perms(n) :
                     \A i, j \in 1..n :
                        i < j => rows[g[i]].date >= rows[g[j]].date} }

\* variant of ValueKept: only "df[value_col].notna()"
ValueKeptNotna(r) == r.value.kind # "missing"

\* "df[value_col].notna()" and the value's text, stripped and lowered, not
\* in ['nan', 'none', '']
ValueKept(r) == r.value.kind \notin {"missing", "blank", "nan_text"}

\* prev_val: None, held as the empty sequence, or float(pv)
PrevVal(r) == IF r.prev.kind = "num" THEN <<r.prev.v>> ELSE <<>>

NoRow == [status |-> "None", value |-> 0, prev |-> <<>>, date |-> NoDate]
RowRaised == [status |-> "raised", value |-> 0, prev |-> <<>>, date |-> NoDate]

\* the dict returned for the row last; strftime('%Y-%m') of a month is the
\* month
RowDict(last) ==
    [status |-> "row", value |-> last.value.v, prev |-> PrevVal(last),
     date |-> last.date]

\* every result _get_latest_pmi_row(df) can give; a table without the
\* value column raises KeyError at "df[value_col]"
_get_latest_pmi_row(df) ==
    IF ~df.has_cols THEN {RowRaised}
    ELSE { LET kept == SelectSeq(sorted, ValueKept)
           IN  IF Len(kept) = 0 THEN NoRow ELSE RowDict(kept[1]) :
             sorted \in SortedDesc(ParsedRows(df.rows)) }

\* _get_latest_pmi_row called on one table
SelectRow ==
    /\ row_pc = "call"
    /\ \E r \in _get_latest_pmi_row(pmi_df) : row_result' = r
    /\ row_pc' = "done"
    /\ UNCHANGED pmi_df
    /\ UNCHANGED <<pmi_fetch, pmi, pmi_pc>>
    /\ UNCHANGED notPmi

PmiRowNext == SelectRow

\* the four series in the order fetch_pmi_data asks for them
PmiKeys == <<"cn_mfg", "cn_svc", "cx_mfg", "cx_svc">>

\* tables an AKShare series call can return
GoodRow == [date |-> 2, value |-> Num(501), prev |-> Num(495)]
OlderRow == [date |-> 1, value |-> Num(498), prev |-> Missing]
PendingRow == [date |-> 2, value |-> Missing, prev |-> Num(495)]

PmiTables ==
    { [has_cols |-> TRUE, rows |-> <<GoodRow>>],
      [has_cols |-> TRUE, rows |-> <<OlderRow, PendingRow>>],
      [has_cols |-> TRUE, rows |-> <<PendingRow>>],
      [has_cols |-> TRUE, rows |-> <<>>],
      [has_cols |-> FALSE, rows |-> <<>>] }

\* what one "df = ak.<series>()" can do: raise, or return a table
SeriesOutcomes ==
    {[raised |-> TRUE, df |-> [has_cols |-> FALSE, rows |-> <<>>]]}
    \cup {[raised |-> FALSE, df |-> t] : t \in PmiTables}

\* "import akshare as ak" inside the outer try: ImportError is caught and
\* the empty dict returned
PmiImport ==
    /\ pmi_pc = "import"
    /\ \E ok \in BOOLEAN : pmi_pc' = IF ok THEN "loop" ELSE "done"
    /\ UNCHANGED <<pmi_fetch, pmi>>
    /\ UNCHANGED <<pmi_df, row_result, row_pc>>
    /\ UNCHANGED notPmi

\* variant of RowStored: the row is stored whenever the call returned
RowStoredAlways(o, r) == ~o.raised

\* "row = _get_latest_pmi_row(df); if row: pmi[key] = {...}" inside the
\* indicator's own try
RowStored(o, r) == ~o.raised /\ r.status = "row"

\* one of the four indicator blocks
PmiIndicator ==
    /\ pmi_pc = "loop"
    /\ Len(pmi_fetch) < Len(PmiKeys)
    /\ LET key == PmiKeys[Len(pmi_fetch) + 1]
       IN  \E o \in SeriesOutcomes :
             /\ pmi_fetch' = Append(pmi_fetch, o)
             /\ \E r \in _get_latest_pmi_row(o.df) :
                  pmi' = IF RowStored(o, r)
                         THEN DictSet(pmi, key, r)
                         ELSE pmi
    /\ UNCHANGED pmi_pc
    /\ UNCHANGED <<pmi_df, row_result, row_pc>>
    /\ UNCHANGED notPmi

\* return pmi
PmiReturn ==
    /\ pmi_pc = "loop"
    /\ Len(pmi_fetch) = Len(PmiKeys)
    /\ pmi_pc' = "done"
    /\ UNCHANGED <<pmi_fetch, pmi>>
    /\ UNCHANGED <<pmi_df, row_result, row_pc>>
    /\ UNCHANGED notPmi

PmiNext ==
    \/ PmiImport
    \/ PmiIndicator
    \/ PmiReturn

\* ------------------------------------------------------------------------
\* generate_report.py: build_pmi_block_html
\* ------------------------------------------------------------------------
\* readings an indicator of pmi_data can hold, values in tenths
BlockValues == {495, 500, 505}
BlockPrevs == {<<>>} \cup {<<v>> : v \in BlockValues}

BlockReadings ==
    [status : {"row"}, value : BlockValues, prev : BlockPrevs, date : {MaxMonth}]

\* the mappings fetch_pmi_data can return: any of the first k keys present,
\* in key order
RECURSIVE PmiMappings(_)
PmiMappings(k) ==
    IF k = 0 THEN {<<>>}
    ELSE LET M == PmiMappings(k - 1)
         IN  M \cup {Append(m, [name |-> PmiKeys[k], rec |-> r]) :
                        m \in M, r \in BlockReadings}

\* f"{x:.1f}" for x = n / 10, n >= 0
Fixed1(n) == Digits(n \div 10) \o <<".", DigitChars[(n % 10) + 1]>>

\* variant of IsExpansion: "if val > 50"
IsExpansionStrict(val) == val > 500

\* "if val >= 50"
IsExpansion(val) == val >= 500

Green == "#16a34a"
Red == "#dc2626"
Grey == "#888"

\* diff_str: the arrow, its colour and abs(diff), or nothing when prev is
\* None
DiffSpan(val, prev) ==
    IF prev = <<>> THEN [arrow |-> "", diff_color |-> "", diff |-> <<>>]
    ELSE LET diff == val - prev[1]
         IN  [arrow |-> IF diff > 0 THEN ArrowUp
                        ELSE IF diff < 0 THEN ArrowDown ELSE ArrowNone,
              diff_color |-> IF diff > 0 THEN Green
                             ELSE IF diff < 0 THEN Red ELSE Grey,
              diff |-> Fixed1(Abs(diff))]

\* one pmi-item of items_html
PmiCard(item) ==
    [name |-> item.name,
     value |-> Fixed1(item.rec.value),
     status_color |-> IF IsExpansion(item.rec.value) THEN Green ELSE Red,
     status_text |-> IF IsExpansion(item.rec.value)
                     THEN "expansion" ELSE "contraction",
     diff_str |-> DiffSpan(item.rec.value, item.rec.prev),
     date |-> item.rec.date]

\* build_pmi_block_html(pmi_data)
build_pmi_block_html ==
    /\ blk_pc = "call"
    /\ pmi_block' = IF pmi = <<>>
                    THEN [empty |-> TRUE, cards |-> <<>>]
                    ELSE [empty |-> FALSE,
                          cards |-> [k \in 1..Len(pmi) |-> PmiCard(pmi[k])]]
    /\ blk_pc' = "done"
    /\ UNCHANGED pmiVars
    /\ UNCHANGED notBlock

PmiBlockNext == build_pmi_block_html

\* ------------------------------------------------------------------------
\* fetch_news.py: format_news_for_prompt
\* ------------------------------------------------------------------------
\* the keys of category_labels, in the order of the dict literal
CategoryLabels ==
    << "global_markets", "macro", "central_banks", "commodities",
       "tech", "china", "asia", "crypto" >>

MaxListed == 8       \* "items[:8]"
SnippetLen == 200    \* "item['summary'][:200]"
SummaryCap == 250    \* the longest summary fetch_rss_feed stores

\* a news item: the name of its source, its title and the length of its
\* summary
NewsItem(source, title, summary) ==
    [source |-> source, title |-> title, summary |-> summary]

\* one item more than a section lists: the sources alternate, the last
\* item alone comes from a third source; summaries of every kind
LongList ==
    [k \in 1..(MaxListed + 1) |->
        NewsItem(IF k = MaxListed + 1 THEN "C"
                 ELSE IF k % 2 = 1 THEN "A" ELSE "B",
                 k,
                 IF k = 1 THEN SummaryCap
                 ELSE IF k = 2 THEN SnippetLen
                 ELSE IF k = 3 THEN 0 ELSE SnippetLen - k)]

\* the item lists a category can hold
ItemLists == { <<>>, <<NewsItem("A", 1, SummaryCap)>>, LongList }

Reverse(q) == [k \in 1..Len(q) |-> q[Len(q) + 1 - k]]

\* the orders in which the bucket's keys were inserted
KeyOrders == {CategoryLabels, Reverse(CategoryLabels)}

\* the buckets passed in: every key present, in one of the orders
Buckets ==
    { [k \in 1..Len(order) |-> [category |-> order[k], items |-> f[order[k]]]] :
        order \in KeyOrders, f \in [Categories -> ItemLists] }

\* all_news.get(cat, [])
BucketGet(bucket, cat) ==
    IF \E k \in 1..Len(bucket) : bucket[k].category = cat
    THEN bucket[CHOOSE k \in 1..Len(bucket) : bucket[k].category = cat].items
    ELSE <<>>

\* variant of Listed without the cut
ListedAll(items) == items

\* items[:8]
Listed(items) == FirstN(items, MaxListed)

\* the title line of an item and, "if item['summary']", its snippet line
ItemLines(item) ==
    <<[kind |-> "title", title |-> item.title, len |-> 0]>>
    \o (IF item.summary # 0
        THEN <<[kind |-> "summary", title |-> item.title,
                len |-> Min(item.summary, SnippetLen)]>>
        ELSE <<>>)

RECURSIVE SectionLines(_)
SectionLines(items) ==
    IF items = <<>> THEN <<>>
    ELSE ItemLines(Head(items)) \o SectionLines(Tail(items))

\* one section: its heading with the attribution, then its lines
Section(cat, items) ==
    [category |-> cat,
     sources |-> {Listed(items)[k].source : k \in 1..Len(Listed(items))},
     lines |-> SectionLines(Listed(items))]

\* one iteration of "for cat, label in category_labels.items()"
FormatCategory ==
    /\ fmt_pc = "loop"
    /\ fmt_i < Len(CategoryLabels)
    /\ LET cat == CategoryLabels[fmt_i + 1]
           items == BucketGet(news_in, cat)
       IN  sections' = IF items = <<>> THEN sections
                       ELSE Append(sections, Section(cat, items))
    /\ fmt_i' = fmt_i + 1
    /\ UNCHANGED <<news_in, fmt_pc>>
    /\ UNCHANGED notFmt

\* return "\n".join(sections)
FormatReturn ==
    /\ fmt_pc = "loop"
    /\ fmt_i = Len(CategoryLabels)
    /\ fmt_pc' = "done"
    /\ UNCHANGED <<news_in, fmt_i, sections>>
    /\ UNCHANGED notFmt

FmtNext ==
    \/ FormatCategory
    \/ FormatReturn

\* ------------------------------------------------------------------------
\* send_report.py: extract_section
\* ------------------------------------------------------------------------
\* the class [...\d] of the pattern: the ten Chinese numerals and the digits
CjkNumerals ==
    {"U+4E00", "U+4E8C", "U+4E09", "U+56DB", "U+4E94",
     "U+516D", "U+4E03", "U+516B", "U+4E5D", "U+5341"}
Numerals == CjkNumerals \cup {DigitChars[k] : k \in 1..Len(DigitChars)}

\* the class of the optional separator: ideographic comma, full stop,
\* fullwidth full stop
Separators == {"U+3001", ".", "U+FF0E"}

\* \s, as far as the texts hold it
Whitespace == {" ", NL}

Ellipsis == "U+2026"

\* s[i:].startswith(p)
At(s, i, p) == StartsWith(DropFirst(s, i - 1), p)

\* the first position from i on that holds no character of S
AfterRun(s, i, S) ==
    CHOOSE j \in i..(Len(s) + 1) :
        /\ j = Len(s) + 1 \/ s[j] \notin S
        /\ \A k \in i..(j - 1) : s[k] \in S

\* the position after the title when '## ', numerals, an optional separator,
\* optional whitespace and the title match at i, else 0.  The title starts
\* with a character of none of the three classes, so the greedy match is
\* the only one.
HeadingEnd(s, i, title) ==
    LET a == i + 3
        b == AfterRun(s, a, Numerals)
        c == IF b <= Len(s) /\ s[b] \in Separators THEN b + 1 ELSE b
        d == AfterRun(s, c, Whitespace)
    IN  IF At(s, i, <<"#", "#", " ">>) /\ b > a /\ At(s, d, title)
        THEN d + Len(title) ELSE 0

\* re.search: the leftmost position where the pattern matches, or 0
MatchStart(s, title) ==
    LET C == {i \in 1..Len(s) : HeadingEnd(s, i, title) # 0}
    IN  IF C = {} THEN 0 ELSE CHOOSE i \in C : \A k \in C : i <= k

\* '.*?(?=\n## |\Z)' with DOTALL: the match ends before the first '\n## '
\* from position from on, or at the end of the text
MatchEnd(s, from) ==
    CHOOSE e \in from..(Len(s) + 1) :
        /\ e = Len(s) + 1 \/ At(s, e, <<NL, "#", "#", " ">>)
        /\ \A k \in from..(e - 1) : ~At(s, k, <<NL, "#", "#", " ">>)

\* re.sub(m (.+?) m, \1, s)
RECURSIVE StripMarks(_, _)
StripMarks(s, m) ==
    IF s = <<>> THEN <<>>
    ELSE IF StartsWith(s, m) /\ FindFrom(s, m, Len(m) + 2) # 0
         THEN LET j == FindFrom(s, m, Len(m) + 2)
              IN  SubSeq(s, Len(m) + 1, j - 1)
                  \o StripMarks(DropFirst(s, j + Len(m) - 1), m)
         ELSE <<Head(s)>> \o StripMarks(Tail(s), m)

\* the two "continue" tests of the loop
Skipped(stripped) ==
    \/ StartsWith(stripped, <<"#", "#", "#">>)
    \/ StartsWith(stripped, <<"-", "-", "-">>)

\* body_lines of "for line in lines[1:]", given those lines
RECURSIVE BodyLines(_)
BodyLines(ls) ==
    IF ls = <<>> THEN <<>>
    ELSE LET stripped == Strip(Head(ls))
         IN  (IF ~Skipped(stripped) /\ stripped # <<>>
              THEN <<StripMarks(StripMarks(stripped, <<"*", "*">>), <<"*">>)>>
              ELSE <<>>)
             \o BodyLines(Tail(ls))

\* body[:max_chars].rstrip() + ('...' if len(body) > max_chars else '')
Excerpt(body, max_chars) ==
    RStrip(FirstN(body, max_chars))
    \o (IF Len(body) > max_chars THEN <<Ellipsis>> ELSE <<>>)

extract_section(text, section_title, max_chars) ==
    LET i == MatchStart(text, section_title)
    IN  IF i = 0 THEN <<>>
        ELSE LET e == MatchEnd(text, HeadingEnd(text, i, section_title))
                 content == SubSeq(text, i, e - 1)
             IN  Excerpt(Join(BodyLines(Tail(Split(content, NL))), " "),
                         max_chars)

\* the title asked for
SectionTitle == <<"T">>

\* lines of the draft: the heading asked for, another top-level heading, a
\* sub-heading, a sub-heading that names the title, a divider, a bullet
\* line, text with bold and italic markers, plain text, a blank line
SecLines ==
    { <<"#", "#", " ", "1", ".", "T">>,
      <<"#", "#", " ", "2", ".", "U">>,
      <<"#", "#", "#", " ", "s">>,
      <<"#", "#", "#", " ", "1", ".", "T">>,
      <<"-", "-", "-">>,
      <<"-", " ", "b">>,
      <<"*", "*", "a", "*", "*", " ", "*", "c", "*">>,
      <<"a">>,
      <<>> }

MaxSecLines == 3

\* the drafts extract_section is called on
SecTexts == {Join(ls, NL) : ls \in SeqsUpTo(SecLines, MaxSecLines)}

\* values of max_chars: one of the callers' and one the body can exceed
MaxCharsChoices == {2, 300}

\* a call extract_section(content_md, title, max_chars)
CallExtractSection ==
    /\ sec_pc = "call"
    /\ sec_result' = extract_section(sec_text, SectionTitle, sec_max)
    /\ sec_pc' = "done"
    /\ UNCHANGED <<sec_text, sec_max>>
    /\ UNCHANGED notSec

SecNext == CallExtractSection

\* ------------------------------------------------------------------------
\* Specifications: one per program, the other programs' variables idle
\* ------------------------------------------------------------------------
\* markdown_to_html called on a text; nothing else runs
InitMd ==
    /\ md_text \in MdInputs
    /\ lines = Split(md_text, NL)
    /\ md_i = 0
    /\ html_lines = <<>>
    /\ in_bullet = FALSE
    /\ md_pc = "loop"
    /\ max_items_per_source = 0
    /\ fetched = <<>>
    /\ all_news = [c \in Categories |-> <<>>]
    /\ agg_pc = "idle"
    /\ SENDGRID_API_KEY = ""
    /\ GMAIL_APP_PASSWORD = ""
    /\ WECHAT_WEBHOOK_URL = ""
    /\ WECHAT_WEBHOOK_URL2 = ""
    /\ GITHUB_REPOSITORY = <<>>
    /\ GITHUB_PAGES_DOMAIN = <<>>
    /\ files = "ok"
    /\ html_public_url = <<>>
    /\ calls = <<>>
    /\ email_result = "none"
    /\ composed = <<>>
    /\ payload = <<>>
    /\ market = [indices |-> <<>>, commodities |-> <<>>]
    /\ urls_to_send = <<>>
    /\ post_i = 0
    /\ posts = <<>>
    /\ success = FALSE
    /\ wechat_result = "none"
    /\ send_pc = "idle"
    /\ generated_content = <<>>
    /\ gen_failure = "none"
    /\ stages = <<>>
    /\ pdf_raised = FALSE
    /\ gen_pc = "idle"
    /\ mk_hist = <<>>
    /\ data = [indices |-> <<>>, commodities |-> <<>>, forex |-> <<>>]
    /\ mk_pc = "idle"
    /\ pmi_df = [has_cols |-> TRUE, rows |-> <<>>]
    /\ row_result = NoRow
    /\ row_pc = "idle"
    /\ pmi_fetch = <<>>
    /\ pmi = <<>>
    /\ pmi_pc = "idle"
    /\ market_table = [indices |-> <<>>, commodities |-> <<>>, forex |-> <<>>]
    /\ pmi_block = [empty |-> TRUE, cards |-> <<>>]
    /\ blk_pc = "idle"
    /\ news_in = <<>>
    /\ fmt_i = 0
    /\ sections = <<>>
    /\ fmt_pc = "idle"
    /\ sec_text = <<>>
    /\ sec_max = 0
    /\ sec_result = <<>>
    /\ sec_pc = "idle"

\* aggregate_all_news called with a cap; nothing else runs
InitAgg ==
    /\ md_text = <<>>
    /\ lines = <<>>
    /\ md_i = 0
    /\ html_lines = <<>>
    /\ in_bullet = FALSE
    /\ md_pc = "idle"
    /\ max_items_per_source \in 0..MaxCap
    /\ fetched = <<>>
    /\ all_news = [c \in Categories |-> <<>>]
    /\ agg_pc = "loop"
    /\ SENDGRID_API_KEY = ""
    /\ GMAIL_APP_PASSWORD = ""
    /\ WECHAT_WEBHOOK_URL = ""
    /\ WECHAT_WEBHOOK_URL2 = ""
    /\ GITHUB_REPOSITORY = <<>>
    /\ GITHUB_PAGES_DOMAIN = <<>>
    /\ files = "ok"
    /\ html_public_url = <<>>
    /\ calls = <<>>
    /\ email_result = "none"
    /\ composed = <<>>
    /\ payload = <<>>
    /\ market = [indices |-> <<>>, commodities |-> <<>>]
    /\ urls_to_send = <<>>
    /\ post_i = 0
    /\ posts = <<>>
    /\ success = FALSE
    /\ wechat_result = "none"
    /\ send_pc = "idle"
    /\ generated_content = <<>>
    /\ gen_failure = "none"
    /\ stages = <<>>
    /\ pdf_raised = FALSE
    /\ gen_pc = "idle"
    /\ mk_hist = <<>>
    /\ data = [indices |-> <<>>, commodities |-> <<>>, forex |-> <<>>]
    /\ mk_pc = "idle"
    /\ pmi_df = [has_cols |-> TRUE, rows |-> <<>>]
    /\ row_result = NoRow
    /\ row_pc = "idle"
    /\ pmi_fetch = <<>>
    /\ pmi = <<>>
    /\ pmi_pc = "idle"
    /\ market_table = [indices |-> <<>>, commodities |-> <<>>, forex |-> <<>>]
    /\ pmi_block = [empty |-> TRUE, cards |-> <<>>]
    /\ blk_pc = "idle"
    /\ news_in = <<>>
    /\ fmt_i = 0
    /\ sections = <<>>
    /\ fmt_pc = "idle"
    /\ sec_text = <<>>
    /\ sec_max = 0
    /\ sec_result = <<>>
    /\ sec_pc = "idle"

\* send_report.py started with some configuration; nothing else runs
InitSend ==
    /\ md_text = <<>>
    /\ lines = <<>>
    /\ md_i = 0
    /\ html_lines = <<>>
    /\ in_bullet = FALSE
    /\ md_pc = "idle"
    /\ max_items_per_source = 0
    /\ fetched = <<>>
    /\ all_news = [c \in Categories |-> <<>>]
    /\ agg_pc = "idle"
    /\ SENDGRID_API_KEY \in {"", "key"}
    /\ GMAIL_APP_PASSWORD \in {"", "pw"}
    /\ WECHAT_WEBHOOK_URL \in {"", "hook1"}
    /\ WECHAT_WEBHOOK_URL2 \in {"", "hook2"}
    /\ GITHUB_REPOSITORY \in RepositoryChoices
    /\ GITHUB_PAGES_DOMAIN \in DomainChoices
    /\ files \in FileStates
    /\ html_public_url = <<>>
    /\ calls = <<>>
    /\ email_result = "none"
    /\ composed = <<>>
    /\ payload = <<>>
    /\ market = [indices |-> <<>>, commodities |-> <<>>]
    /\ urls_to_send = <<>>
    /\ post_i = 0
    /\ posts = <<>>
    /\ success = FALSE
    /\ wechat_result = "none"
    /\ send_pc = "main"
    /\ generated_content = <<>>
    /\ gen_failure = "none"
    /\ stages = <<>>
    /\ pdf_raised = FALSE
    /\ gen_pc = "idle"
    /\ mk_hist = <<>>
    /\ data = [indices |-> <<>>, commodities |-> <<>>, forex |-> <<>>]
    /\ mk_pc = "idle"
    /\ pmi_df = [has_cols |-> TRUE, rows |-> <<>>]
    /\ row_result = NoRow
    /\ row_pc = "idle"
    /\ pmi_fetch = <<>>
    /\ pmi = <<>>
    /\ pmi_pc = "idle"
    /\ market_table = [indices |-> <<>>, commodities |-> <<>>, forex |-> <<>>]
    /\ pmi_block = [empty |-> TRUE, cards |-> <<>>]
    /\ blk_pc = "idle"
    /\ news_in = <<>>
    /\ fmt_i = 0
    /\ sections = <<>>
    /\ fmt_pc = "idle"
    /\ sec_text = <<>>
    /\ sec_max = 0
    /\ sec_result = <<>>
    /\ sec_pc = "idle"

\* generate_report.main started; the renderer not yet called
InitGen ==
    /\ md_text = <<>>
    /\ lines = <<>>
    /\ md_i = 0
    /\ html_lines = <<>>
    /\ in_bullet = FALSE
    /\ md_pc = "idle"
    /\ max_items_per_source = 0
    /\ fetched = <<>>
    /\ all_news = [c \in Categories |-> <<>>]
    /\ agg_pc = "idle"
    /\ SENDGRID_API_KEY = ""
    /\ GMAIL_APP_PASSWORD = ""
    /\ WECHAT_WEBHOOK_URL = ""
    /\ WECHAT_WEBHOOK_URL2 = ""
    /\ GITHUB_REPOSITORY = <<>>
    /\ GITHUB_PAGES_DOMAIN = <<>>
    /\ files = "ok"
    /\ html_public_url = <<>>
    /\ calls = <<>>
    /\ email_result = "none"
    /\ composed = <<>>
    /\ payload = <<>>
    /\ market = [indices |-> <<>>, commodities |-> <<>>]
    /\ urls_to_send = <<>>
    /\ post_i = 0
    /\ posts = <<>>
    /\ success = FALSE
    /\ wechat_result = "none"
    /\ send_pc = "idle"
    /\ generated_content = <<>>
    /\ gen_failure = "none"
    /\ stages = <<>>
    /\ pdf_raised = FALSE
    /\ gen_pc = "fetch_market_data"
    /\ mk_hist = <<>>
    /\ data = [indices |-> <<>>, commodities |-> <<>>, forex |-> <<>>]
    /\ mk_pc = "idle"
    /\ pmi_df = [has_cols |-> TRUE, rows |-> <<>>]
    /\ row_result = NoRow
    /\ row_pc = "idle"
    /\ pmi_fetch = <<>>
    /\ pmi = <<>>
    /\ pmi_pc = "idle"
    /\ market_table = [indices |-> <<>>, commodities |-> <<>>, forex |-> <<>>]
    /\ pmi_block = [empty |-> TRUE, cards |-> <<>>]
    /\ blk_pc = "idle"
    /\ news_in = <<>>
    /\ fmt_i = 0
    /\ sections = <<>>
    /\ fmt_pc = "idle"
    /\ sec_text = <<>>
    /\ sec_max = 0
    /\ sec_result = <<>>
    /\ sec_pc = "idle"

\* fetch_market_data called; nothing else runs
InitMarket ==
    /\ md_text = <<>>
    /\ lines = <<>>
    /\ md_i = 0
    /\ html_lines = <<>>
    /\ in_bullet = FALSE
    /\ md_pc = "idle"
    /\ max_items_per_source = 0
    /\ fetched = <<>>
    /\ all_news = [c \in Categories |-> <<>>]
    /\ agg_pc = "idle"
    /\ SENDGRID_API_KEY = ""
    /\ GMAIL_APP_PASSWORD = ""
    /\ WECHAT_WEBHOOK_URL = ""
    /\ WECHAT_WEBHOOK_URL2 = ""
    /\ GITHUB_REPOSITORY = <<>>
    /\ GITHUB_PAGES_DOMAIN = <<>>
    /\ files = "ok"
    /\ html_public_url = <<>>
    /\ calls = <<>>
    /\ email_result = "none"
    /\ composed = <<>>
    /\ payload = <<>>
    /\ market = [indices |-> <<>>, commodities |-> <<>>]
    /\ urls_to_send = <<>>
    /\ post_i = 0
    /\ posts = <<>>
    /\ success = FALSE
    /\ wechat_result = "none"
    /\ send_pc = "idle"
    /\ generated_content = <<>>
    /\ gen_failure = "none"
    /\ stages = <<>>
    /\ pdf_raised = FALSE
    /\ gen_pc = "idle"
    /\ mk_hist = <<>>
    /\ data = [indices |-> <<>>, commodities |-> <<>>, forex |-> <<>>]
    /\ mk_pc = "loop"
    /\ pmi_df = [has_cols |-> TRUE, rows |-> <<>>]
    /\ row_result = NoRow
    /\ row_pc = "idle"
    /\ pmi_fetch = <<>>
    /\ pmi = <<>>
    /\ pmi_pc = "idle"
    /\ market_table = [indices |-> <<>>, commodities |-> <<>>, forex |-> <<>>]
    /\ pmi_block = [empty |-> TRUE, cards |-> <<>>]
    /\ blk_pc = "idle"
    /\ news_in = <<>>
    /\ fmt_i = 0
    /\ sections = <<>>
    /\ fmt_pc = "idle"
    /\ sec_text = <<>>
    /\ sec_max = 0
    /\ sec_result = <<>>
    /\ sec_pc = "idle"

\* _get_latest_pmi_row called on a table; nothing else runs
InitPmiRow ==
    /\ md_text = <<>>
    /\ lines = <<>>
    /\ md_i = 0
    /\ html_lines = <<>>
    /\ in_bullet = FALSE
    /\ md_pc = "idle"
    /\ max_items_per_source = 0
    /\ fetched = <<>>
    /\ all_news = [c \in Categories |-> <<>>]
    /\ agg_pc = "idle"
    /\ SENDGRID_API_KEY = ""
    /\ GMAIL_APP_PASSWORD = ""
    /\ WECHAT_WEBHOOK_URL = ""
    /\ WECHAT_WEBHOOK_URL2 = ""
    /\ GITHUB_REPOSITORY = <<>>
    /\ GITHUB_PAGES_DOMAIN = <<>>
    /\ files = "ok"
    /\ html_public_url = <<>>
    /\ calls = <<>>
    /\ email_result = "none"
    /\ composed = <<>>
    /\ payload = <<>>
    /\ market = [indices |-> <<>>, commodities |-> <<>>]
    /\ urls_to_send = <<>>
    /\ post_i = 0
    /\ posts = <<>>
    /\ success = FALSE
    /\ wechat_result = "none"
    /\ send_pc = "idle"
    /\ generated_content = <<>>
    /\ gen_failure = "none"
    /\ stages = <<>>
    /\ pdf_raised = FALSE
    /\ gen_pc = "idle"
    /\ mk_hist = <<>>
    /\ data = [indices |-> <<>>, commodities |-> <<>>, forex |-> <<>>]
    /\ mk_pc = "idle"
    /\ pmi_df \in Tables
    /\ row_result = NoRow
    /\ row_pc = "call"
    /\ pmi_fetch = <<>>
    /\ pmi = <<>>
    /\ pmi_pc = "idle"
    /\ market_table = [indices |-> <<>>, commodities |-> <<>>, forex |-> <<>>]
    /\ pmi_block = [empty |-> TRUE, cards |-> <<>>]
    /\ blk_pc = "idle"
    /\ news_in = <<>>
    /\ fmt_i = 0
    /\ sections = <<>>
    /\ fmt_pc = "idle"
    /\ sec_text = <<>>
    /\ sec_max = 0
    /\ sec_result = <<>>
    /\ sec_pc = "idle"

\* fetch_pmi_data called; nothing else runs
InitPmi ==
    /\ md_text = <<>>
    /\ lines = <<>>
    /\ md_i = 0
    /\ html_lines = <<>>
    /\ in_bullet = FALSE
    /\ md_pc = "idle"
    /\ max_items_per_source = 0
    /\ fetched = <<>>
    /\ all_news = [c \in Categories |-> <<>>]
    /\ agg_pc = "idle"
    /\ SENDGRID_API_KEY = ""
    /\ GMAIL_APP_PASSWORD = ""
    /\ WECHAT_WEBHOOK_URL = ""
    /\ WECHAT_WEBHOOK_URL2 = ""
    /\ GITHUB_REPOSITORY = <<>>
    /\ GITHUB_PAGES_DOMAIN = <<>>
    /\ files = "ok"
    /\ html_public_url = <<>>
    /\ calls = <<>>
    /\ email_result = "none"
    /\ composed = <<>>
    /\ payload = <<>>
    /\ market = [indices |-> <<>>, commodities |-> <<>>]
    /\ urls_to_send = <<>>
    /\ post_i = 0
    /\ posts = <<>>
    /\ success = FALSE
    /\ wechat_result = "none"
    /\ send_pc = "idle"
    /\ generated_content = <<>>
    /\ gen_failure = "none"
    /\ stages = <<>>
    /\ pdf_raised = FALSE
    /\ gen_pc = "idle"
    /\ mk_hist = <<>>
    /\ data = [indices |-> <<>>, commodities |-> <<>>, forex |-> <<>>]
    /\ mk_pc = "idle"
    /\ pmi_df = [has_cols |-> TRUE, rows |-> <<>>]
    /\ row_result = NoRow
    /\ row_pc = "idle"
    /\ pmi_fetch = <<>>
    /\ pmi = <<>>
    /\ pmi_pc = "import"
    /\ market_table = [indices |-> <<>>, commodities |-> <<>>, forex |-> <<>>]
    /\ pmi_block = [empty |-> TRUE, cards |-> <<>>]
    /\ blk_pc = "idle"
    /\ news_in = <<>>
    /\ fmt_i = 0
    /\ sections = <<>>
    /\ fmt_pc = "idle"
    /\ sec_text = <<>>
    /\ sec_max = 0
    /\ sec_result = <<>>
    /\ sec_pc = "idle"

\* build_pmi_block_html called on a mapping fetch_pmi_data returned
InitPmiBlock ==
    /\ md_text = <<>>
    /\ lines = <<>>
    /\ md_i = 0
    /\ html_lines = <<>>
    /\ in_bullet = FALSE
    /\ md_pc = "idle"
    /\ max_items_per_source = 0
    /\ fetched = <<>>
    /\ all_news = [c \in Categories |-> <<>>]
    /\ agg_pc = "idle"
    /\ SENDGRID_API_KEY = ""
    /\ GMAIL_APP_PASSWORD = ""
    /\ WECHAT_WEBHOOK_URL = ""
    /\ WECHAT_WEBHOOK_URL2 = ""
    /\ GITHUB_REPOSITORY = <<>>
    /\ GITHUB_PAGES_DOMAIN = <<>>
    /\ files = "ok"
    /\ html_public_url = <<>>
    /\ calls = <<>>
    /\ email_result = "none"
    /\ composed = <<>>
    /\ payload = <<>>
    /\ market = [indices |-> <<>>, commodities |-> <<>>]
    /\ urls_to_send = <<>>
    /\ post_i = 0
    /\ posts = <<>>
    /\ success = FALSE
    /\ wechat_result = "none"
    /\ send_pc = "idle"
    /\ generated_content = <<>>
    /\ gen_failure = "none"
    /\ stages = <<>>
    /\ pdf_raised = FALSE
    /\ gen_pc = "idle"
    /\ mk_hist = <<>>
    /\ data = [indices |-> <<>>, commodities |-> <<>>, forex |-> <<>>]
    /\ mk_pc = "idle"
    /\ pmi_df = [has_cols |-> TRUE, rows |-> <<>>]
    /\ row_result = NoRow
    /\ row_pc = "idle"
    /\ pmi_fetch = <<>>
    /\ pmi \in PmiMappings(Len(PmiKeys))
    /\ pmi_pc = "done"
    /\ market_table = [indices |-> <<>>, commodities |-> <<>>, forex |-> <<>>]
    /\ pmi_block = [empty |-> TRUE, cards |-> <<>>]
    /\ blk_pc = "call"
    /\ news_in = <<>>
    /\ fmt_i = 0
    /\ sections = <<>>
    /\ fmt_pc = "idle"
    /\ sec_text = <<>>
    /\ sec_max = 0
    /\ sec_result = <<>>
    /\ sec_pc = "idle"

\* format_news_for_prompt called on a bucket
InitFmt ==
    /\ md_text = <<>>
    /\ lines = <<>>
    /\ md_i = 0
    /\ html_lines = <<>>
    /\ in_bullet = FALSE
    /\ md_pc = "idle"
    /\ max_items_per_source = 0
    /\ fetched = <<>>
    /\ all_news = [c \in Categories |-> <<>>]
    /\ agg_pc = "idle"
    /\ SENDGRID_API_KEY = ""
    /\ GMAIL_APP_PASSWORD = ""
    /\ WECHAT_WEBHOOK_URL = ""
    /\ WECHAT_WEBHOOK_URL2 = ""
    /\ GITHUB_REPOSITORY = <<>>
    /\ GITHUB_PAGES_DOMAIN = <<>>
    /\ files = "ok"
    /\ html_public_url = <<>>
    /\ calls = <<>>
    /\ email_result = "none"
    /\ composed = <<>>
    /\ payload = <<>>
    /\ market = [indices |-> <<>>, commodities |-> <<>>]
    /\ urls_to_send = <<>>
    /\ post_i = 0
    /\ posts = <<>>
    /\ success = FALSE
    /\ wechat_result = "none"
    /\ send_pc = "idle"
    /\ generated_content = <<>>
    /\ gen_failure = "none"
    /\ stages = <<>>
    /\ pdf_raised = FALSE
    /\ gen_pc = "idle"
    /\ mk_hist = <<>>
    /\ data = [indices |-> <<>>, commodities |-> <<>>, forex |-> <<>>]
    /\ mk_pc = "idle"
    /\ pmi_df = [has_cols |-> TRUE, rows |-> <<>>]
    /\ row_result = NoRow
    /\ row_pc = "idle"
    /\ pmi_fetch = <<>>
    /\ pmi = <<>>
    /\ pmi_pc = "idle"
    /\ market_table = [indices |-> <<>>, commodities |-> <<>>, forex |-> <<>>]
    /\ pmi_block = [empty |-> TRUE, cards |-> <<>>]
    /\ blk_pc = "idle"
    /\ news_in \in Buckets
    /\ fmt_i = 0
    /\ sections = <<>>
    /\ fmt_pc = "loop"
    /\ sec_text = <<>>
    /\ sec_max = 0
    /\ sec_result = <<>>
    /\ sec_pc = "idle"

\* extract_section called on a draft
InitSec ==
    /\ md_text = <<>>
    /\ lines = <<>>
    /\ md_i = 0
    /\ html_lines = <<>>
    /\ in_bullet = FALSE
    /\ md_pc = "idle"
    /\ max_items_per_source = 0
    /\ fetched = <<>>
    /\ all_news = [c \in Categories |-> <<>>]
    /\ agg_pc = "idle"
    /\ SENDGRID_API_KEY = ""
    /\ GMAIL_APP_PASSWORD = ""
    /\ WECHAT_WEBHOOK_URL = ""
    /\ WECHAT_WEBHOOK_URL2 = ""
    /\ GITHUB_REPOSITORY = <<>>
    /\ GITHUB_PAGES_DOMAIN = <<>>
    /\ files = "ok"
    /\ html_public_url = <<>>
    /\ calls = <<>>
    /\ email_result = "none"
    /\ composed = <<>>
    /\ payload = <<>>
    /\ market = [indices |-> <<>>, commodities |-> <<>>]
    /\ urls_to_send = <<>>
    /\ post_i = 0
    /\ posts = <<>>
    /\ success = FALSE
    /\ wechat_result = "none"
    /\ send_pc = "idle"
    /\ generated_content = <<>>
    /\ gen_failure = "none"
    /\ stages = <<>>
    /\ pdf_raised = FALSE
    /\ gen_pc = "idle"
    /\ mk_hist = <<>>
    /\ data = [indices |-> <<>>, commodities |-> <<>>, forex |-> <<>>]
    /\ mk_pc = "idle"
    /\ pmi_df = [has_cols |-> TRUE, rows |-> <<>>]
    /\ row_result = NoRow
    /\ row_pc = "idle"
    /\ pmi_fetch = <<>>
    /\ pmi = <<>>
    /\ pmi_pc = "idle"
    /\ market_table = [indices |-> <<>>, commodities |-> <<>>, forex |-> <<>>]
    /\ pmi_block = [empty |-> TRUE, cards |-> <<>>]
    /\ blk_pc = "idle"
    /\ news_in = <<>>
    /\ fmt_i = 0
    /\ sections = <<>>
    /\ fmt_pc = "idle"
    /\ sec_text \in SecTexts
    /\ sec_max \in MaxCharsChoices
    /\ sec_result = <<>>
    /\ sec_pc = "call"

SpecMd == InitMd /\ [][MdNext]_vars

SpecAgg == InitAgg /\ [][AggNext]_vars

SpecSend == InitSend /\ [][SendNext]_vars

SpecGen == InitGen /\ [][GenNext]_vars

SpecMarket == InitMarket /\ [][MarketNext]_vars

SpecPmiRow == InitPmiRow /\ [][PmiRowNext]_vars

SpecPmi == InitPmi /\ [][PmiNext]_vars

SpecPmiBlock == InitPmiBlock /\ [][PmiBlockNext]_vars

SpecFmt == InitFmt /\ [][FmtNext]_vars

SpecSec == InitSec /\ [][SecNext]_vars

\* ------------------------------------------------------------------------
\* C1: list structure of the markdown_to_html output
\* ------------------------------------------------------------------------
\* depth of the open list after the lines h (0 or 1), or -1 when h holds an
\* <li> outside a list, a <ul> inside an open list or a </ul> with no open list
RECURSIVE ListDepth(_, _)
ListDepth(h, d) ==
    IF h = <<>> THEN d
    ELSE LET t == Head(h).tag IN
         IF t = "ul" THEN (IF d = 0 THEN ListDepth(Tail(h), 1) ELSE -1)
         ELSE IF t = "/ul" THEN (IF d = 1 THEN ListDepth(Tail(h), 0) ELSE -1)
         ELSE IF t = "li" THEN (IF d = 1 THEN ListDepth(Tail(h), d) ELSE -1)
         ELSE ListDepth(Tail(h), d)

HasTag(h, t) == \E k \in 1..Len(h) : h[k].tag = t

\* C1: in the output of markdown_to_html every <li> lies inside an open
\* bullet list, a <ul> is never emitted while a list is open, every </ul>
\* closes an open list, and at the end of the input no list is left open.
C1_ListsWellFormed ==
    /\ ListDepth(html_lines, 0) # -1
    /\ md_pc = "done" => ListDepth(html_lines, 0) = 0

\* a finished rendering that holds a list with items, closed by end of input
C1_Witness ==
    /\ md_pc = "done"
    /\ HasTag(html_lines, "li")
    /\ html_lines[Len(html_lines)].tag = "/ul"
    /\ Len(lines) >= 2

\* ------------------------------------------------------------------------
\* C2, C3: send_email
\* ------------------------------------------------------------------------
SendEmailOver == send_pc \in {"send_wechat_work", "post", "fallback", "done", "crashed"}

Called(t) == \E k \in 1..Len(calls) : calls[k].transport = t

\* C2 (as claimed): send_email never raises; whatever credentials are set
\* and whichever way a transport fails (a report file that cannot be read
\* included) it returns a boolean, and it returns False when both transports
\* are unconfigured or both fail.
C2_SendEmailNeverRaises ==
    SendEmailOver =>
        /\ email_result \in {"True", "False"}
        /\ send_pc # "crashed"
        /\ (\A k \in 1..Len(calls) : calls[k].result # "True") => email_result = "False"

\* C3: SendGrid is called only with its key set and before Gmail; Gmail is
\* called if and only if the key is unset or SendGrid returned failure, and
\* never after SendGrid succeeded; send_email returns True exactly when a
\* called transport succeeded.
C3_PrimaryThenFallback ==
    /\ \A k \in 1..Len(calls) :
         calls[k].transport = "sendgrid" => SENDGRID_API_KEY # "" /\ k = 1
    /\ \A k \in 1..Len(calls) :
         calls[k].transport = "gmail" =>
            \/ SENDGRID_API_KEY = "" /\ k = 1
            \/ k = 2 /\ calls[1] = [transport |-> "sendgrid", result |-> "False"]
    /\ SendEmailOver =>
         /\ Called("sendgrid") <=> SENDGRID_API_KEY # ""
         /\ Called("gmail") <=>
              \/ SENDGRID_API_KEY = ""
              \/ \E k \in 1..Len(calls) :
                   calls[k] = [transport |-> "sendgrid", result |-> "False"]
         /\ email_result = "True" <=> \E k \in 1..Len(calls) : calls[k].result = "True"

\* the primary unconfigured and the mail sent by the fallback alone
C3_Witness ==
    /\ SendEmailOver
    /\ SENDGRID_API_KEY = ""
    /\ calls = <<[transport |-> "gmail", result |-> "True"]>>
    /\ email_result = "True"

\* ------------------------------------------------------------------------
\* C4: generate_report_content
\* ------------------------------------------------------------------------
\* C4 (as claimed): generate_report_content never raises; after a failure
\* inside it, in the construction of the client or in the completion call,
\* it has returned the fallback block and main goes on to the rendering.
C4_GenerationNeverRaises ==
    gen_failure # "none" =>
        /\ gen_pc # "crashed"
        /\ generated_content = FallbackBlock

\* ------------------------------------------------------------------------
\* C5..C8: send_wechat_work and the __main__ block of send_report.py
\* ------------------------------------------------------------------------
HasLinkLine(m, url) == \E k \in 1..Len(m) : m[k] = LinkLine(url)

\* C5 (as claimed): whenever the composed message is longer than 4000
\* characters, the content of the payload is at most 4000 characters long
\* and holds the whole link line, whatever the length of the public URL.
C5_TruncatedFitsLimit ==
    MsgLen(composed) > WechatLimit =>
        /\ MsgLen(payload) <= WechatLimit
        /\ HasLinkLine(payload, html_public_url)

PostedFull(u) == \E k \in 1..Len(posts) : posts[k].url = u /\ posts[k].kind = "full"

Configured == {WECHAT_WEBHOOK_URL, WECHAT_WEBHOOK_URL2} \ {""}

\* C6 (as claimed): when send_wechat_work has returned, the full message
\* was posted to every configured webhook URL, whatever the other URL is
\* (unset, failing, or refused by the provider).
C6_EveryConfiguredUrlPosted ==
    wechat_result # "none" => \A u \in Configured : PostedFull(u)

\* the full-message post p failed in one of the ways the claim lists
FullPostFailed(p) ==
    p.kind = "full" /\ p.outcome \in {"raise", "http_error", "errcode_45009"}

FallbackFollows(k) ==
    /\ k < Len(posts)
    /\ posts[k + 1].kind = "fallback"
    /\ posts[k + 1].url = posts[k].url

\* C7 (as claimed): whenever the post of the full message fails (the request
\* raises, the HTTP status is an error, or the provider answers 45009) the
\* fallback message is sent to the same endpoint and no other, and an
\* endpoint that accepted the full message gets no fallback.
C7_FallbackOnAnyFailure ==
    wechat_result # "none" =>
        \A k \in 1..Len(posts) :
            /\ FullPostFailed(posts[k]) => FallbackFollows(k)
            /\ posts[k].kind = "fallback" =>
                 k > 1 /\ posts[k - 1].url = posts[k].url /\ FullPostFailed(posts[k - 1])

\* C7 (amended): the fallback message (at most the first 6 indices, the
\* first 4 commodities, and the link line) is sent exactly when the provider
\* answered the full message with errcode 45009, right after that post, to
\* that same endpoint and to no other; an endpoint whose post raised, got an
\* HTTP error status or another errcode, or was accepted gets no fallback.
C7_FallbackOnlyOn45009 ==
    \A k \in 1..Len(posts) :
        /\ (posts[k].kind = "full" /\ posts[k].outcome = "errcode_45009"
            /\ (k < Len(posts) \/ send_pc # "fallback"))
           => FallbackFollows(k)
        /\ posts[k].kind = "fallback" =>
             /\ k > 1
             /\ posts[k - 1].kind = "full"
             /\ posts[k - 1].url = posts[k].url
             /\ posts[k - 1].outcome = "errcode_45009"
             /\ Len(posts[k].content.indices) <= 6
             /\ Len(posts[k].content.commodities) <= 4
             /\ posts[k].content.indices = FirstN(market.indices, 6)
             /\ posts[k].content.commodities = FirstN(market.commodities, 4)
             /\ posts[k].content.link = LinkLine(html_public_url).kind

\* both endpoints answered: the first 45009 and got the fallback cut to 6
\* indices and 4 commodities, the second failed otherwise and got none
C7_Witness ==
    /\ wechat_result # "none"
    /\ Len(posts) = 3
    /\ posts[1].outcome = "errcode_45009"
    /\ posts[2].kind = "fallback" /\ posts[2].url = "hook1"
    /\ Len(posts[2].content.indices) = 6 /\ Len(market.indices) > 6
    /\ Len(posts[2].content.commodities) = 4
    /\ posts[3].kind = "full" /\ posts[3].url = "hook2"
    /\ posts[3].outcome \in {"raise", "http_error"}

\* C8 (as claimed): whatever happens to the email channel, the webhook
\* channel is attempted in the same run, and a failing webhook endpoint does
\* not prevent the attempt on the other.
C8_WebhookAlwaysAttempted ==
    send_pc \in {"done", "crashed"} =>
        /\ wechat_result # "none"
        /\ (WECHAT_WEBHOOK_URL # "" => \A u \in Configured : PostedFull(u))

\* ------------------------------------------------------------------------
\* C9, C10: fetch_rss_feed
\* ------------------------------------------------------------------------
\* the processing of the feed raised: parse raised, or one of the entries
\* the loop visits raised
FeedRaised(feed, max_items) ==
    \/ feed.raises
    \/ \E k \in 1..Len(FirstN(feed.entries, max_items)) : feed.entries[k].raises

\* the entries of s with a non-empty trimmed title, as the items of source src
RECURSIVE TitledItems(_, _, _)
TitledItems(src, s, k) ==
    IF k > Len(s) THEN <<>>
    ELSE (IF ~s[k].raises /\ Strip(s[k].title) # <<>>
          THEN <<[source |-> src, category |-> RSS_SOURCES[src],
                  title |-> Strip(s[k].title), link |-> k]>>
          ELSE <<>>)
         \o TitledItems(src, s, k + 1)

\* the entries of s before the first one that raises
RECURSIVE BeforeRaise(_)
BeforeRaise(s) ==
    IF s = <<>> THEN <<>>
    ELSE IF Head(s).raises THEN <<>>
    ELSE <<Head(s)>> \o BeforeRaise(Tail(s))

\* the bucket built from the items of the feeds 1..n other than feed x
RECURSIVE BucketWithout(_, _, _)
BucketWithout(f, n, x) ==
    IF n = 0 THEN [c \in Categories |-> <<>>]
    ELSE LET b == BucketWithout(f, n - 1, x) IN
         IF n = x THEN b
         ELSE [b EXCEPT ![RSS_SOURCES[n]] = @ \o f[n].items]

\* the items of all_news[c] that do not come from source x
RECURSIVE NotFrom(_, _)
NotFrom(s, x) ==
    IF s = <<>> THEN <<>>
    ELSE (IF Head(s).source = x THEN <<>> ELSE <<Head(s)>>) \o NotFrom(Tail(s), x)

\* C9 (as claimed): a feed whose fetch or entry processing raised at any
\* point contributes zero items, and the bucket holds for the other feeds
\* exactly the items it would hold had the failing feed not been visited.
C9_FailedFeedContributesNothing ==
    \A x \in 1..Len(fetched) :
        FeedRaised(fetched[x].feed, max_items_per_source) =>
            /\ fetched[x].items = <<>>
            /\ \A c \in Categories :
                 NotFrom(all_news[c], x) = BucketWithout(fetched, Len(fetched), x)[c]
                 /\ NotFrom(all_news[c], x) = all_news[c]

GroupTickers(cat) ==
    CASE cat = "indices" -> INDEX_TICKERS
      [] cat = "commodities" -> COMMODITY_TICKERS
      [] cat = "forex" -> FOREX_TICKERS

\* the history call of the k-th visited ticker raised or gave no close
FetchFailed(k) == mk_hist[k].raised \/ mk_hist[k].closes = <<>>

IsSentinel(rec) ==
    /\ rec.price = NA /\ rec.change = NA /\ rec.pct = NA
    /\ rec.display = NA /\ rec.is_up = -1

\* the record stored for the k-th visited ticker, <<>> when there is none
\* or more than one
StoredFor(k) ==
    LET t == TickerOrder[k]
        d == data[t.category]
        hits == {j \in 1..Len(d) : d[j].name = t.name}
    IN  IF Cardinality(hits) = 1
        THEN <<d[CHOOSE j \in hits : TRUE].rec>> ELSE <<>>

\* C11: whatever subset of the tickers fails (history call raises or returns
\* no data point), the returned result holds exactly one record for every
\* configured ticker of the three groups; a failed ticker has the sentinel
\* record (price, change, pct and display "N/A", is_up -1) and every other
\* ticker a non-sentinel record whose is_up is 0 or 1
C11_EveryTickerHasOneRecord ==
    mk_pc = "done" =>
      /\ DOMAIN data = {"indices", "commodities", "forex"}
      /\ \A cat \in DOMAIN data :
            /\ Len(data[cat]) = Len(GroupTickers(cat))
            /\ \A j \in 1..Len(data[cat]) :
                  data[cat][j].name = GroupTickers(cat)[j]
      /\ \A k \in 1..Len(TickerOrder) :
            /\ StoredFor(k) # <<>>
            /\ FetchFailed(k) => IsSentinel(StoredFor(k)[1])
            /\ ~FetchFailed(k) =>
                  /\ StoredFor(k)[1].is_up \in {0, 1}
                  /\ StoredFor(k)[1].price # NA
                  /\ StoredFor(k)[1].change # NA
                  /\ StoredFor(k)[1].pct # NA
                  /\ StoredFor(k)[1].display # NA

\* the run is over, one ticker raised, another returned no data point, and
\* the ticker visited between them got a quote
C11_Witness ==
    /\ mk_pc = "done"
    /\ mk_hist[3].raised
    /\ ~mk_hist[4].raised /\ Len(mk_hist[4].closes) = 2
    /\ ~mk_hist[9].raised /\ mk_hist[9].closes = <<>>
    /\ IsSentinel(data["indices"][3].rec)
    /\ data["indices"][4].rec.is_up = 1
    /\ IsSentinel(data["commodities"][1].rec)

\* ------------------------------------------------------------------------
\* C12: change, percent and direction of a market record
\* ------------------------------------------------------------------------
Txt_p5_00 == <<"+", "5", ".", "0", "0">>
Txt_p0_00 == <<"+", "0", ".", "0", "0">>

\* the number a text of digits and one point shows, the point dropped:
\* "105.00" reads 10500
RECURSIVE ReadDigits(_)
ReadDigits(t) ==
    IF t = <<>> THEN 0
    ELSE LET ch == t[Len(t)]
             rest == SubSeq(t, 1, Len(t) - 1)
         IN  IF ch = "." THEN ReadDigits(rest)
             ELSE 10 * ReadDigits(rest)
                  + (CHOOSE d \in 0..9 : DigitChars[d + 1] = ch)

\* text t is the ":+.2f" form of the quotient num / den, den > 0: its sign
\* is the quotient's and it shows a multiple of 0.01 no farther than 0.005
\* from the quotient
ShowsQuotient(t, num, den) ==
    /\ Len(t) >= 5
    /\ t[1] = (IF num < 0 THEN "-" ELSE "+")
    /\ t[Len(t) - 2] = "."
    /\ 2 * Abs(ReadDigits(Tail(t)) * den - Abs(num) * 100) <= den

\* the arithmetic of the record stored for the k-th visited ticker
RecordArithmetic(k) ==
    LET c == mk_hist[k].closes
        n == Len(c)
        rec == StoredFor(k)[1]
    IN  /\ n >= 2 =>
              LET previous == c[n - 1]
                  latest == c[n]
              IN  /\ rec.change = SignedFixed2(latest < previous,
                                               Abs(latest - previous))
                  /\ previous > 0 =>
                        /\ ShowsQuotient(SubSeq(rec.pct, 1, Len(rec.pct) - 1),
                                         (latest - previous) * 100, previous)
                        /\ rec.pct[Len(rec.pct)] = "%"
                        /\ rec.is_up = 1 <=> latest - previous >= 0
                        /\ rec.is_up = 0 <=> latest - previous < 0
                  /\ latest = previous => rec.is_up = 1
                  /\ c = <<10000, 10500>> =>
                        /\ rec.change = Txt_p5_00
                        /\ rec.pct = Txt_p5_00 \o <<"%">>
                        /\ rec.is_up = 1
        /\ n = 1 =>
              /\ rec.change = Txt_p0_00
              /\ rec.pct = Txt_p0_00 \o <<"%">>
              /\ rec.is_up = 1

\* C12: for a ticker with at least two closes the record's change is latest
\* minus previous and its percent is change / previous * 100, both shown
\* with sign and two decimals ([100.0, 105.0] gives "+5.00", "+5.00%", up);
\* with exactly one close both are zero ("+0.00", "+0.00%"); the direction
\* flag is 1 exactly when the percent is >= 0 and 0 exactly when it is < 0,
\* so a zero change counts as up (checked on the returned result)
C12_ChangePercentDirection ==
    mk_pc = "done" =>
      \A k \in 1..Len(mk_hist) :
         (~mk_hist[k].raised /\ StoredFor(k) # <<>>) => RecordArithmetic(k)

\* the result is returned with the records of a ticker that fell by a
\* hundredth of 300.00, one with a single close and one that rose from
\* 100.00 to 105.00
C12_Witness ==
    /\ mk_pc = "done"
    /\ mk_hist[1].closes = <<30000, 29999>>
    /\ data["indices"][1].rec.change = <<"-", "0", ".", "0", "1">>
    /\ data["indices"][1].rec.pct = <<"-", "0", ".", "0", "0", "%">>
    /\ data["indices"][1].rec.is_up = 0
    /\ mk_hist[2].closes = <<10000>>
    /\ data["indices"][2].rec.pct = Txt_p0_00 \o <<"%">>
    /\ data["indices"][2].rec.is_up = 1
    /\ mk_hist[3].closes = <<10000, 10500>>
    /\ data["indices"][3].rec.display =
          <<"1", "0", "5", ".", "0", "0", " ", "(">> \o Txt_p5_00
          \o <<"%", ")">>

\* ------------------------------------------------------------------------
\* C13: the row _get_latest_pmi_row selects
\* ------------------------------------------------------------------------
\* rows of table t with a parseable date and a value that is a reading
\* (not missing, not blank, not the text of a missing value)
DatedReadings(t) ==
    {k \in 1..Len(t.rows) :
       t.rows[k].date \in Months /\ t.rows[k].value.kind = "num"}

\* result r is the row of t with the greatest date among DatedReadings(t)
IsLatestReading(t, r) ==
    /\ r.status = "row"
    /\ \E k \in DatedReadings(t) :
          /\ \A j \in DatedReadings(t) : t.rows[j].date <= t.rows[k].date
          /\ r.date = t.rows[k].date
          /\ r.value = t.rows[k].value.v

\* C13: for every table, the selected reading is the row with the greatest
\* parseable date among the rows whose value is neither missing nor blank;
\* rows with a missing value are skipped even when more recent, rows with an
\* unparseable date are never selected, and the result is None when no such
\* row exists
C13_LatestValidRowSelected ==
    row_pc = "done" =>
      IF DatedReadings(pmi_df) = {}
      THEN row_result = NoRow
      ELSE IsLatestReading(pmi_df, row_result)

\* the older reading is returned from a table whose more recent row has no
\* value yet
C13_Witness ==
    /\ row_pc = "done"
    /\ Len(pmi_df.rows) = 2
    /\ pmi_df.rows[1].date = 2 /\ pmi_df.rows[1].value = Missing
    /\ pmi_df.rows[2].date = 1 /\ pmi_df.rows[2].value = Num(498)
    /\ row_result.status = "row"
    /\ row_result.value = 498 /\ row_result.date = 1

\* ------------------------------------------------------------------------
\* C14: per-indicator isolation in fetch_pmi_data
\* ------------------------------------------------------------------------
\* the fetch of the k-th visited series raised, or the row selection did
IndicatorFailed(k) == pmi_fetch[k].raised \/ ~pmi_fetch[k].df.has_cols

\* the entries of the result dict under the k-th series' key
EntriesFor(k) == {j \in 1..Len(pmi) : pmi[j].name = PmiKeys[k]}

\* C14: whatever subset of the four series fails in its fetch or its row
\* selection, fetch_pmi_data returns (it does not raise), the failed
\* indicators are absent from the result, and every other indicator with a
\* valid latest row is present with its own reading
C14_IndicatorsIsolated ==
    /\ pmi_pc \in {"idle", "import", "loop", "done"}
    /\ \A j \in 1..Len(pmi) : \E k \in 1..Len(pmi_fetch) : j \in EntriesFor(k)
    /\ \A k \in 1..Len(pmi_fetch) :
          IF IndicatorFailed(k)
          THEN EntriesFor(k) = {}
          ELSE DatedReadings(pmi_fetch[k].df) # {} =>
                 /\ Cardinality(EntriesFor(k)) = 1
                 /\ \A j \in EntriesFor(k) :
                       IsLatestReading(pmi_fetch[k].df, pmi[j].rec)

\* the result is returned with the second and the fourth indicator only:
\* the first series' fetch raised and the third's row selection did
C14_Witness ==
    /\ pmi_pc = "done"
    /\ Len(pmi_fetch) = 4
    /\ pmi_fetch[1].raised
    /\ ~pmi_fetch[2].raised /\ pmi_fetch[2].df.rows = <<OlderRow, PendingRow>>
    /\ ~pmi_fetch[3].raised /\ ~pmi_fetch[3].df.has_cols
    /\ ~pmi_fetch[4].raised /\ pmi_fetch[4].df.rows = <<GoodRow>>
    /\ Len(pmi) = 2
    /\ pmi[1].name = "cn_svc" /\ pmi[1].rec.value = 498
    /\ pmi[2].name = "cx_svc" /\ pmi[2].rec.value = 501

\* ------------------------------------------------------------------------
\* C15: the order of the stages of main
\* ------------------------------------------------------------------------
\* the steps of main as the code numbers them: 1, 2, 3, 3.5, 4, 5
StageOrder ==
    << "fetch_market_data", "aggregate_all_news", "generate_report_content",
       "fetch_pmi_data", "generate_html_report", "generate_pdf_from_html" >>

Completed(stage) == \E k \in 1..Len(stages) : stages[k] = stage

\* content generation has started
GenerationStarted ==
    gen_pc = "generate_report_content" \/ gen_failure # "none"
    \/ Completed("generate_report_content")

\* no stage is completed twice
EachStageAtMostOnce ==
    \A j, k \in 1..Len(stages) : stages[j] = stages[k] => j = k

\* C15 as stated: the stages run in the order aggregate data, generate
\* content, render, export, each at most once, and every data-fetch stage
\* (market quotes, news, macro indicators) has completed before content
\* generation starts
C15_AllFetchesBeforeGeneration ==
    /\ EachStageAtMostOnce
    /\ GenerationStarted =>
          /\ Completed("fetch_market_data")
          /\ Completed("aggregate_all_news")
          /\ Completed("fetch_pmi_data")

\* C15 amended: the stages completed so far are always a prefix of market
\* quotes, news, content generation, macro indicators, rendering, export:
\* each runs at most once, no later stage triggers an earlier one, market
\* quotes and news are complete before content generation starts, and the
\* macro indicators are fetched after generation and before rendering
C15_StagesInCodeOrder ==
    /\ Len(stages) <= Len(StageOrder)
    /\ stages = SubSeq(StageOrder, 1, Len(stages))
    /\ GenerationStarted =>
          /\ Completed("fetch_market_data")
          /\ Completed("aggregate_all_news")
    /\ Completed("fetch_pmi_data") => Completed("generate_report_content")
    /\ gen_pc = "markdown_to_html" => Completed("fetch_pmi_data")

\* main has returned after all six stages
C15_Witness ==
    /\ gen_pc = "done"
    /\ stages = StageOrder
    /\ gen_failure = "none"

\* ------------------------------------------------------------------------
\* C17: a failure of the PDF export ends main
\* ------------------------------------------------------------------------
\* C17: if the PDF renderer raises inside generate_pdf_from_html the error
\* leaves main: main never reaches its last line, never returns the two
\* paths, and the export stage is not completed
C17_PdfFailureIsFatal ==
    pdf_raised =>
      /\ gen_pc = "crashed"
      /\ ~Completed("generate_pdf_from_html")

\* the renderer raised after the HTML report was written
C17_Witness ==
    /\ pdf_raised
    /\ gen_pc = "crashed"
    /\ Completed("generate_html_report")
    /\ gen_failure = "none"

\* ------------------------------------------------------------------------
\* C16: no attempt is repeated
\* ------------------------------------------------------------------------
PostFailed(k) == posts[k].outcome # "errcode_0"

\* C16: within one run each mail transport is attempted at most once and
\* each webhook endpoint receives the full message at most once and the
\* fallback message at most once; after a failure the only further attempt
\* is the distinct fallback (Gmail after SendGrid, the short message after
\* the full one), never the same attempt again
C16_NoAttemptRepeated ==
    /\ \A j, k \in 1..Len(calls) :
          calls[j].transport = calls[k].transport => j = k
    /\ \A j, k \in 1..Len(posts) :
          (posts[j].url = posts[k].url /\ posts[j].kind = posts[k].kind)
            => j = k
    /\ \A k \in 1..Len(calls) :
          (k > 1 /\ calls[k - 1].result # "True") =>
             calls[k].transport # calls[k - 1].transport
    /\ \A k \in 1..Len(posts) :
          (k > 1 /\ PostFailed(k - 1) /\ posts[k].url = posts[k - 1].url) =>
             /\ posts[k - 1].kind = "full"
             /\ posts[k].kind = "fallback"

\* the run is over: SendGrid failed and Gmail was tried once, the first
\* endpoint refused the full message as too long and got the fallback once,
\* the second endpoint failed and got nothing more
C16_Witness ==
    /\ wechat_result # "none"
    /\ Len(calls) = 2
    /\ calls[1] = [transport |-> "sendgrid", result |-> "False"]
    /\ calls[2].transport = "gmail"
    /\ Len(posts) = 3
    /\ posts[1].kind = "full" /\ posts[1].outcome = "errcode_45009"
    /\ posts[2].kind = "fallback" /\ posts[2].url = posts[1].url
    /\ posts[2].outcome = "raise"
    /\ posts[3].kind = "full" /\ posts[3].url # posts[1].url
    /\ posts[3].outcome = "http_error"

\* ------------------------------------------------------------------------
\* C18: the shape of the news bucket
\* ------------------------------------------------------------------------
\* item a is fetched before item b: from an earlier feed, or from the same
\* feed at an earlier entry
FetchedBefore(a, b) ==
    a.source < b.source \/ (a.source = b.source /\ a.link < b.link)

\* C18: after any prefix of the feed list the bucket has exactly the eight
\* fixed category keys (empty lists stay), every item is stored under the
\* category of its own source, and the items of a category are in fetch
\* order: feed list order, then entry order within a feed
C18_BucketShape ==
    /\ DOMAIN all_news = Categories
    /\ Cardinality(DOMAIN all_news) = 8
    /\ \A c \in DOMAIN all_news :
          /\ \A k \in 1..Len(all_news[c]) :
                /\ all_news[c][k].source \in 1..Len(fetched)
                /\ RSS_SOURCES[all_news[c][k].source] = c
                /\ all_news[c][k].category = c
          /\ \A j, k \in 1..Len(all_news[c]) :
                j < k => FetchedBefore(all_news[c][j], all_news[c][k])
    /\ \A x \in 1..Len(fetched) :
          \A k \in 1..Len(fetched[x].items) :
             \E j \in 1..Len(all_news[RSS_SOURCES[x]]) :
                all_news[RSS_SOURCES[x]][j] = fetched[x].items[k]

\* the last feed is done and the function has not returned yet: one
\* category holds two items of the first feed followed by an item of the
\* last feed, another holds an item of the ninth, others are empty lists
C18_Witness ==
    /\ agg_pc = "loop"
    /\ Len(fetched) = 24
    /\ Len(fetched[1].items) = 2
    /\ Len(fetched[9].items) = 1
    /\ Len(fetched[24].items) = 1
    /\ Len(all_news["global_markets"]) = 3
    /\ all_news["global_markets"][2].source = 1
    /\ all_news["global_markets"][3].source = 24
    /\ Len(all_news["macro"]) = 1
    /\ all_news["crypto"] = <<>>

\* ------------------------------------------------------------------------
\* C19: the element sequence of markdown_to_html
\* ------------------------------------------------------------------------
IsBulletLine(k) == LineKind(lines[k]) = "bullet"

\* what line k contributes: the items of a bullet line, the one element of
\* any other line
LineElements(k) ==
    IF IsBulletLine(k) THEN BulletItems(lines[k])
    ELSE LineOutput(lines[k], FALSE)

\* line k with the list opened before it when it starts a maximal run of
\* bullet lines and closed after it when it ends one
LineWithList(k) ==
    (IF IsBulletLine(k) /\ (k = 1 \/ ~IsBulletLine(k - 1))
     THEN <<UlOpen>> ELSE <<>>)
    \o LineElements(k)
    \o (IF IsBulletLine(k) /\ (k = Len(lines) \/ ~IsBulletLine(k + 1))
        THEN <<UlClose>> ELSE <<>>)

RECURSIVE ExpectedElements(_)
ExpectedElements(k) ==
    IF k = 0 THEN <<>> ELSE ExpectedElements(k - 1) \o LineWithList(k)

\* the output is the lines' elements in input order, one element per
\* non-bullet line, a list opened before and closed after each maximal run
\* of bullet lines
ElementsInOrder ==
    /\ html_lines = ExpectedElements(Len(lines))
    /\ \A k \in 1..Len(lines) :
          ~IsBulletLine(k) =>
             /\ Len(LineElements(k)) = 1
             /\ LineElements(k)[1].tag \in {"h2", "h3", "hr", "blank", "p"}

\* C19 as stated: the output is, in input order, one element per non-bullet
\* line and one or more list items per bullet line, the list opening
\* immediately before the first item of each maximal run of bullet lines
\* and the list closing immediately after its last item
C19_OneOrMoreItemsPerBulletLine ==
    md_pc = "done" =>
      /\ ElementsInOrder
      /\ \A k \in 1..Len(lines) :
            IsBulletLine(k) => Len(LineElements(k)) >= 1
      /\ \A j \in 1..Len(html_lines) :
            /\ html_lines[j].tag = "ul" =>
                  j < Len(html_lines) /\ html_lines[j + 1].tag = "li"
            /\ html_lines[j].tag = "/ul" =>
                  j > 1 /\ html_lines[j - 1].tag = "li"

\* C19 amended: the output is, in input order, one element per non-bullet
\* line and the list items of each bullet line (one per non-empty segment
\* of a middle-dot line, so possibly none; exactly one for a line of the
\* other two bullet forms), the list opening immediately before the
\* elements of the first line of each maximal run of bullet lines and
\* closing immediately after those of its last line; the lines "## H", "",
\* "- a", "---" give heading, blank marker, list open, one item, list
\* close, divider
C19_ElementSequence ==
    md_pc = "done" =>
      /\ ElementsInOrder
      /\ \A k \in 1..Len(lines) :
            (IsBulletLine(k) /\ ~IsDot(lines[k])) => Len(LineElements(k)) = 1
      /\ lines = ExampleLines =>
            /\ Len(html_lines) = 6
            /\ [k \in 1..6 |-> html_lines[k].tag]
                 = <<"h2", "blank", "ul", "li", "/ul", "hr">>

\* the example text is rendered
C19_Witness ==
    /\ md_pc = "done"
    /\ lines = ExampleLines
    /\ Len(html_lines) = 6
    /\ html_lines[1] = El("h2", <<"H">>)
    /\ html_lines[4] = El("li", <<"a">>)

\* ------------------------------------------------------------------------
\* C20: a middle-dot line is unpacked into its segments
\* ------------------------------------------------------------------------
\* the non-empty trimmed segments of text s between middle dots, cur being
\* the segment read so far
RECURSIVE DotScan(_, _)
DotScan(s, cur) ==
    IF s = <<>>
    THEN (IF Strip(cur) # <<>> THEN <<Strip(cur)>> ELSE <<>>)
    ELSE IF Head(s) = MidDot
    THEN (IF Strip(cur) # <<>> THEN <<Strip(cur)>> ELSE <<>>)
         \o DotScan(Tail(s), <<>>)
    ELSE DotScan(Tail(s), Append(cur, Head(s)))

\* the trimmed content of the line starts with the middle dot
TrimmedStartsWithDot(line) ==
    \E k \in 1..Len(line) :
       /\ line[k] = MidDot
       /\ \A j \in 1..(k - 1) : IsSpace(line[j])

\* the <li> elements among the elements e
ItemsOf(e) == SelectSeq(e, LAMBDA x : x.tag = "li")

DotABC == <<MidDot, "a", MidDot, "b", MidDot, "c">>

\* what the step appends to html_lines
Appended == SubSeq(html_lines', Len(html_lines) + 1, Len(html_lines'))

\* the step that consumes a middle-dot line appends one item per non-empty
\* trimmed segment, in order, and besides them at most the list opening
DotLineUnpacked ==
    (md_pc = "loop" /\ md_i' = md_i + 1
     /\ TrimmedStartsWithDot(lines[md_i + 1])) =>
       LET segs == DotScan(lines[md_i + 1], <<>>)
       IN  /\ ItemsOf(Appended)
                = [k \in 1..Len(segs) |-> El("li", process_inline(segs[k]))]
           /\ Len(Appended) - Len(segs) \in {0, 1}
           /\ Len(Appended) > Len(segs) => Appended[1] = UlOpen
           /\ lines[md_i + 1] = DotABC =>
                 ItemsOf(Appended)
                   = <<El("li", <<"a">>), El("li", <<"b">>), El("li", <<"c">>)>>

\* C20: a line whose trimmed content starts with the middle dot emits
\* exactly one list item per non-empty trimmed segment of the split on the
\* middle dot, in order; the line of the three segments a, b, c emits
\* exactly the items "a", "b", "c"
C20_MiddleDotUnpacked == [][DotLineUnpacked]_vars

\* the line of the three segments a, b, c has just been consumed and the
\* output ends with its three items
C20_Witness ==
    /\ md_pc = "loop"
    /\ md_i >= 1
    /\ lines[md_i] = DotABC
    /\ Len(html_lines) >= 4
    /\ SubSeq(html_lines, Len(html_lines) - 3, Len(html_lines))
         = <<UlOpen, El("li", <<"a">>), El("li", <<"b">>), El("li", <<"c">>)>>

\* ------------------------------------------------------------------------
\* C21: the rules of markdown_to_html and the trimmed line
\* ------------------------------------------------------------------------
\* the kind of a line when every rule is tried on its trimmed content, in
\* the order h2, h3, divider, bullet, blank, paragraph
TrimmedKind(line) ==
    LET t == Strip(line)
    IN  IF StartsWith(t, <<"#", "#", " ">>) THEN "h2"
        ELSE IF StartsWith(t, <<"#", "#", "#", " ">>) THEN "h3"
        ELSE IF t = <<"-", "-", "-">> THEN "hr"
        ELSE IF StartsWith(t, <<MidDot>>) \/ StartsWith(t, <<Blt, " ">>)
                \/ StartsWith(t, <<"-", " ">>) THEN "bullet"
        ELSE IF t = <<>> THEN "blank"
        ELSE "p"

\* C21 as stated: each line is classified by the first matching rule in the
\* order h2, h3, divider, bullet, blank, paragraph, tried on the trimmed
\* line content; a line whose trimmed content starts with "## " is emitted
\* as a level-2 heading and one whose trimmed content starts with "### " as
\* a level-3 heading, never as a paragraph
C21_RulesOnTrimmedContent ==
    (md_pc = "loop" /\ md_i >= 1) =>
      LET kind == TrimmedKind(lines[md_i])
      IN  IF kind = "bullet" THEN in_bullet
          ELSE /\ ~in_bullet
               /\ html_lines # <<>>
               /\ html_lines[Len(html_lines)].tag = kind

\* ------------------------------------------------------------------------
\* C24: the report link of the webhook messages
\* ------------------------------------------------------------------------
\* the positions of "/" in text t
Slashes(t) == {k \in 1..Len(t) : t[k] = "/"}

\* the URL the configuration stands for
ExpectedUrl ==
    IF GITHUB_PAGES_DOMAIN # <<>>
    THEN HttpsPrefix \o GITHUB_PAGES_DOMAIN \o <<"/">> \o HtmlFilename
    ELSE IF Cardinality(Slashes(GITHUB_REPOSITORY)) = 1
    THEN LET k == CHOOSE j \in Slashes(GITHUB_REPOSITORY) : TRUE
         IN  HttpsPrefix \o SubSeq(GITHUB_REPOSITORY, 1, k - 1) \o GithubIo
             \o SubSeq(GITHUB_REPOSITORY, k + 1, Len(GITHUB_REPOSITORY))
             \o <<"/">> \o HtmlFilename
    ELSE <<>>

\* the whole link lines of the given kind in message m
WholeLines(m, kind) ==
    {k \in 1..Len(m) :
       m[k].kind = kind /\ m[k].len = LinkLineLen(html_public_url)}

\* message m carries the link and no notice, or the notice and no link
LinkOrNotice(m) ==
    IF html_public_url # <<>>
    THEN /\ WholeLines(m, "link") # {}
         /\ \A k \in 1..Len(m) : m[k].kind # "notice"
    ELSE /\ WholeLines(m, "notice") # {}
         /\ \A k \in 1..Len(m) : m[k].kind # "link"

\* C24: get_html_public_url returns the custom-domain URL when a pages
\* domain is configured, else the owner.github.io/repo URL when the
\* repository value has exactly the form owner/repo, else the empty string;
\* the composed webhook message and the fallback message contain the link
\* to that URL exactly when it is non-empty and otherwise the "sent by
\* email" notice, never both and never neither
C24_LinkOrNotice ==
    /\ send_pc \notin {"idle", "main"} => html_public_url = ExpectedUrl
    /\ send_pc \in {"post", "fallback", "done"} =>
          (urls_to_send # <<>> => LinkOrNotice(payload))
    /\ \A k \in 1..Len(posts) :
          IF posts[k].kind = "full"
          THEN LinkOrNotice(posts[k].content)
          ELSE posts[k].content.link
                 = (IF html_public_url # <<>> THEN "link" ELSE "notice")

\* with a repository of the form owner/repo and no pages domain, a cut
\* message and the fallback that followed it both carry the link
C24_Witness ==
    /\ GITHUB_PAGES_DOMAIN = <<>>
    /\ GITHUB_REPOSITORY = <<"o", "/", "r">>
    /\ Len(html_public_url) > Len(HtmlFilename)
    /\ Len(posts) >= 2
    /\ posts[1].kind = "full"
    /\ \E k \in 1..Len(posts[1].content) : posts[1].content[k].kind = "mark"
    /\ WholeLines(posts[1].content, "link") # {}
    /\ posts[2].kind = "fallback" /\ posts[2].content.link = "link"

\* ------------------------------------------------------------------------
\* C27: the result of send_wechat_work
\* ------------------------------------------------------------------------
\* C27: send_wechat_work returns True if and only if at least one configured
\* endpoint acknowledged the full message with errcode 0; a delivered
\* fallback message does not make the result True, and with no endpoint
\* acknowledging the full message the result is False, without raising
C27_TrueIffFullAcknowledged ==
    /\ send_pc = "done" => wechat_result \in {"True", "False"}
    /\ wechat_result # "none" =>
          (wechat_result = "True" <=>
             \E k \in 1..Len(posts) :
                posts[k].kind = "full" /\ posts[k].outcome = "errcode_0")
    /\ send_pc \in {"send_wechat_work", "post", "fallback"} =>
          wechat_result = "none"

\* the only endpoint refused the full message as too long and accepted the
\* fallback; the result is False
C27_Witness ==
    /\ wechat_result = "False"
    /\ Len(posts) = 2
    /\ posts[1].kind = "full" /\ posts[1].outcome = "errcode_45009"
    /\ posts[2].kind = "fallback" /\ posts[2].outcome = "errcode_0"

\* ------------------------------------------------------------------------
\* C26: the state of a market table row
\* ------------------------------------------------------------------------
\* the row rendered for the k-th visited ticker, at its place in its group
RowFor(k) ==
    LET t == TickerOrder[k]
        j == CHOOSE i \in 1..Len(data[t.category]) :
                 data[t.category][i].name = t.name
    IN  market_table[t.category][j]

\* C26: for every record produced by fetch_market_data the row is rendered
\* "up" with the up arrow exactly when is_up = 1, "down" with the down arrow
\* exactly when is_up = 0, and "neutral" with the dash for every other flag
\* value; so every sentinel record renders neutral and a zero-change record
\* renders up
C26_RowStateFollowsFlag ==
    mk_pc = "rendered" =>
      /\ \A g \in DOMAIN data : Len(market_table[g]) = Len(data[g])
      /\ \A k \in 1..Len(mk_hist) :
            LET rec == StoredFor(k)[1]
                r == RowFor(k)
                c == mk_hist[k].closes
            IN  /\ r.name = TickerOrder[k].name
                /\ (r.color_class = "up" /\ r.change[1] = ArrowUp)
                     <=> rec.is_up = 1
                /\ (r.color_class = "down" /\ r.change[1] = ArrowDown)
                     <=> rec.is_up = 0
                /\ (r.color_class = "neutral" /\ r.change[1] = ArrowNone)
                     <=> rec.is_up \notin {0, 1}
                /\ IsSentinel(rec) => r.color_class = "neutral"
                /\ FetchFailed(k) => r.color_class = "neutral"
                /\ (~mk_hist[k].raised /\ Len(c) >= 1
                    /\ LastPrice(c) = PrevClose(c)) => r.color_class = "up"

\* the table is rendered with a neutral row for a ticker that raised, an up
\* row for an unchanged ticker and a down row for one that fell
C26_Witness ==
    /\ mk_pc = "rendered"
    /\ \E i, j \in 1..Len(mk_hist) :
          /\ mk_hist[i].raised
          /\ RowFor(i).color_class = "neutral"
          /\ RowFor(i).change = <<ArrowNone, " ">> \o NA
          /\ ~mk_hist[j].raised /\ mk_hist[j].closes = <<10000, 10000>>
          /\ RowFor(j).color_class = "up"
    /\ \E k \in 1..Len(mk_hist) :
          RowFor(k).color_class = "up" /\ RowFor(k).change[1] = ArrowUp

\* ------------------------------------------------------------------------
\* C25: the PMI block
\* ------------------------------------------------------------------------
\* C25: build_pmi_block_html returns the empty string exactly when the
\* indicator mapping is empty; otherwise it renders one card per indicator
\* whose status is expansion and green exactly when value >= 50 and
\* contraction and red otherwise (exactly 50 is expansion), and whose arrow
\* is up when value > prev, down when value < prev, flat when they are
\* equal and absent when prev is None
C25_PmiCards ==
    blk_pc = "done" =>
      /\ pmi_block.empty <=> pmi = <<>>
      /\ Len(pmi_block.cards) = Len(pmi)
      /\ \A k \in 1..Len(pmi) :
            LET card == pmi_block.cards[k]
                value == pmi[k].rec.value
                prev == pmi[k].rec.prev
            IN  /\ card.name = pmi[k].name
                /\ value >= 500 =>
                      card.status_text = "expansion" /\ card.status_color = Green
                /\ value < 500 =>
                      card.status_text = "contraction" /\ card.status_color = Red
                /\ prev = <<>> <=> card.diff_str.arrow = ""
                /\ prev # <<>> =>
                      /\ value > prev[1] <=> card.diff_str.arrow = ArrowUp
                      /\ value < prev[1] <=> card.diff_str.arrow = ArrowDown
                      /\ value = prev[1] <=> card.diff_str.arrow = ArrowNone

\* four cards: a reading of exactly 50 that rose, one below 50 that fell,
\* one unchanged and one without a previous value
C25_Witness ==
    /\ blk_pc = "done"
    /\ Len(pmi) = 4
    /\ pmi[1].rec.value = 500 /\ pmi[1].rec.prev = <<495>>
    /\ pmi_block.cards[1].status_text = "expansion"
    /\ pmi_block.cards[1].diff_str.arrow = ArrowUp
    /\ pmi_block.cards[1].value = <<"5", "0", ".", "0">>
    /\ pmi[2].rec.value = 495 /\ pmi[2].rec.prev = <<505>>
    /\ pmi_block.cards[2].status_text = "contraction"
    /\ pmi_block.cards[2].diff_str.arrow = ArrowDown
    /\ pmi_block.cards[2].diff_str.diff = <<"1", ".", "0">>
    /\ pmi[3].rec.prev = <<pmi[3].rec.value>>
    /\ pmi_block.cards[3].diff_str.arrow = ArrowNone
    /\ pmi[4].rec.prev = <<>>
    /\ pmi_block.cards[4].diff_str.arrow = ""

\* ------------------------------------------------------------------------
\* C23: the sections of format_news_for_prompt
\* ------------------------------------------------------------------------
\* place of category c in the fixed display order
DisplayRank(c) == CHOOSE k \in 1..Len(CategoryLabels) : CategoryLabels[k] = c

\* the items of category c as the bucket holds them
Held(c) ==
    LET k == CHOOSE j \in 1..Len(news_in) : news_in[j].category = c
    IN  news_in[k].items

\* the title lines of section sec, in order
TitleLines(sec) == SelectSeq(sec.lines, LAMBDA l : l.kind = "title")

\* the snippet lines of section sec
SnippetLines(sec) == SelectSeq(sec.lines, LAMBDA l : l.kind = "summary")

\* section sec lists the first items of its category, at most eight, in
\* bucket order, with snippets of at most 200 characters, and names the
\* sources of exactly those items
SectionAsClaimed(sec) ==
    LET held == Held(sec.category)
        n == IF Len(held) < 8 THEN Len(held) ELSE 8
    IN  /\ held # <<>>
        /\ Len(TitleLines(sec)) = n
        /\ \A k \in 1..n : TitleLines(sec)[k].title = held[k].title
        /\ \A k \in 1..Len(SnippetLines(sec)) :
              /\ SnippetLines(sec)[k].len <= 200
              /\ \E j \in 1..n :
                    /\ held[j].title = SnippetLines(sec)[k].title
                    /\ SnippetLines(sec)[k].len
                         = (IF held[j].summary < 200 THEN held[j].summary
                            ELSE 200)
        /\ sec.sources = {held[k].source : k \in 1..n}

\* C23: the categories are rendered in the fixed display order whatever the
\* bucket's insertion order; a category with no item produces no section;
\* each section lists at most the first 8 items of its category in bucket
\* order, each summary snippet is at most 200 characters long, and the
\* attribution names exactly the distinct sources of the listed items
C23_SectionsAsClaimed ==
    fmt_pc = "done" =>
      /\ \A j, k \in 1..Len(sections) :
            j < k => DisplayRank(sections[j].category)
                       < DisplayRank(sections[k].category)
      /\ {sections[k].category : k \in 1..Len(sections)}
           = {c \in Categories : Held(c) # <<>>}
      /\ \A k \in 1..Len(sections) : SectionAsClaimed(sections[k])

\* a bucket filled in reverse order: the first display category holds nine
\* items and is rendered first with eight of them and two sources, the
\* second holds none and has no section, the last holds one
C23_Witness ==
    /\ fmt_pc = "done"
    /\ news_in[1].category = "crypto" /\ Len(news_in[1].items) = 1
    /\ Held("global_markets") = LongList
    /\ Held("macro") = <<>>
    /\ Len(sections) >= 2
    /\ sections[1].category = "global_markets"
    /\ Len(TitleLines(sections[1])) = 8
    /\ sections[1].sources = {"A", "B"}
    /\ sections[1].lines[2] = [kind |-> "summary", title |-> 1, len |-> 200]
    /\ sections[2].category # "macro"
    /\ sections[Len(sections)].category = "crypto"

\* ------------------------------------------------------------------------
\* C22: the excerpt of extract_section
\* ------------------------------------------------------------------------
\* line is a top-level heading that names the title
IsSectionHeading(line) == HeadingEnd(line, 1, SectionTitle) # 0

\* line is any top-level heading
IsTopLevel(line) == StartsWith(line, <<"#", "#", " ">>)

DraftLines == Split(sec_text, NL)

\* the lines between the first heading of the section (at place h) and the
\* next top-level heading or the end of the text
SectionBody(h) ==
    LET after == {k \in (h + 1)..Len(DraftLines) : IsTopLevel(DraftLines[k])}
        stop == IF after = {} THEN Len(DraftLines) + 1
                ELSE CHOOSE k \in after : \A j \in after : k <= j
    IN  SubSeq(DraftLines, h + 1, stop - 1)

\* a line the claim lets contribute: neither a bullet nor a divider line
MayContribute(line) ==
    /\ ~IsBullet(Strip(line))
    /\ ~StartsWith(Strip(line), <<"-", "-", "-">>)

\* the line without its bold and italic markers
Unmarked(line) == SelectSeq(Strip(line), LAMBDA c : c # "*")

\* the lines of body at the places of P, in order
RECURSIVE Chosen(_, _, _)
Chosen(body, P, k) ==
    IF k > Len(body) THEN <<>>
    ELSE (IF k \in P THEN <<Unmarked(body[k])>> ELSE <<>>)
         \o Chosen(body, P, k + 1)

\* C22: the excerpt is built only from lines between the matched top-level
\* section heading and the next top-level heading or the end of the text;
\* the heading line, bullet lines and divider lines contribute nothing, and
\* the lines that contribute have lost their bold and italic markers; when
\* the section heading is absent the result is the empty string
C22_ExcerptFromSectionLines ==
    sec_pc = "done" =>
      LET H == {h \in 1..Len(DraftLines) : IsSectionHeading(DraftLines[h])}
      IN  IF H = {} THEN sec_result = <<>>
          ELSE LET h == CHOOSE k \in H : \A j \in H : k <= j
                   body == SectionBody(h)
                   ok == {k \in 1..Len(body) : MayContribute(body[k])}
               IN  \E P \in SUBSET ok :
                     sec_result = Excerpt(Join(Chosen(body, P, 1), " "), sec_max)
====
